---- MODULE Spec2Model ----
(***************************************************************************)
(* Two-pass compiler of the text-adventure DSL: SymbolParser (pass 1),     *)
(* Parser (pass 2) and GameDefinitionBuilder, over a token stream (Spec);  *)
(* the Lexer over a source text (LexSpec); the builder called directly     *)
(* (BuilderSpec).                                                          *)
(***************************************************************************)
EXTENDS Integers, Sequences, FiniteSets, TLC

VARIABLES source, tokens, lexer, pc, symbolParser, parser, frame, error, result,
          topLevel

vars ==
  <<source, tokens, lexer, pc, symbolParser, parser, frame, error, result, topLevel>>

\* Largest number of chunks (lines or blocks) a generated source is made of.
MaxChunks == 3

\* Largest number of interactions pushed onto one item by the builder's callers.
MaxInteractions == 2

\* Largest number of characters of a source text given to the Lexer.
MaxSourceLen == 4

----------------------------------------------------------------------------
(* Tokens *)

T(type, value) == [type |-> type, value |-> value]

Max(S) == CHOOSE m \in S : \A n \in S : n <= m

\* line of the i-th scanned token: a newline increments the line before its
\* end-of-line token is added
LineOf(raw, i) == 1 + Cardinality({j \in 1..i : raw[j].type = "EOL"})

\* column of the i-th scanned token, counted in tokens since the last newline
ColOf(raw, i) == i - Max({0} \cup {j \in 1..(i - 1) : raw[j].type = "EOL"})

\* The token list of a source: every scanned token with its position, then an
\* end-of-line and an end-of-file token at the final position; an empty source
\* gives an empty list.
tokenize(raw) ==
  IF raw = <<>> THEN <<>>
  ELSE LET n == Len(raw)
           lastLine == 1 + Cardinality({j \in 1..n : raw[j].type = "EOL"})
           lastCol == (n + 1) - Max({0} \cup {j \in 1..n : raw[j].type = "EOL"})
       IN [i \in 1..(n + 2) |->
             IF i <= n
               THEN [type |-> raw[i].type, value |-> raw[i].value,
                     line |-> LineOf(raw, i), col |-> ColOf(raw, i)]
             ELSE IF i = n + 1
               THEN [type |-> "EOL", value |-> "EOL", line |-> lastLine, col |-> lastCol]
             ELSE [type |-> "EOF", value |-> "EOF", line |-> lastLine, col |-> lastCol]]

----------------------------------------------------------------------------
(* Errors *)

Err(kind, name, line, col, originalLine, originalCol) ==
  [kind |-> kind, name |-> name, line |-> line, col |-> col,
   originalLine |-> originalLine, originalCol |-> originalCol]

NoError == Err("None", "", 0, 0, 0, 0)

AssertionError == Err("AssertionError", "", 0, 0, 0, 0)

\* the assertion of a builder method called before the register method
\* an assertion of consume failed: the position is not below the length of the
\* token list, or there is no token at the new position
OutOfBounds ==
  Err("AssertionError", "Consume attempted out of bounds", 0, 0, 0, 0)

NotRegistered(method) ==
  Err("AssertionError", method \o " must be called first", 0, 0, 0, 0)

UnexpectedTokenError(line, col) == Err("UnexpectedTokenError", "", line, col, 0, 0)

UndefinedIdentifierError(identifier, line, col) ==
  Err("UndefinedIdentifierError", identifier, line, col, 0, 0)

ReferenceError(line, col) == Err("ReferenceError", "", line, col, 0, 0)

LexerError(line, col) == Err("LexerError", "", line, col, 0, 0)

UnterminatedBlockError(line, col) == Err("UnterminatedBlockError", "", line, col, 0, 0)

MissingNameError(kind, line, col) == Err(kind, "", line, col, 0, 0)

AlreadyDefinedError(kind, name, originalLine, originalCol, line, col) ==
  Err(kind, name, line, col, originalLine, originalCol)

Failed(s) == s.err.kind # "None"

Throw(s, e) == [s EXCEPT !.err = e]

----------------------------------------------------------------------------
(* Lexer: a source text is a sequence of characters *)

UpperCase ==
  {"A", "B", "C", "D", "E", "F", "G", "H", "I", "J", "K", "L", "M",
   "N", "O", "P", "Q", "R", "S", "T", "U", "V", "W", "X", "Y", "Z"}

LowerCase ==
  {"a", "b", "c", "d", "e", "f", "g", "h", "i", "j", "k", "l", "m",
   "n", "o", "p", "q", "r", "s", "t", "u", "v", "w", "x", "y", "z"}

Digits == {"0", "1", "2", "3", "4", "5", "6", "7", "8", "9"}

Quotes == {"'", "\""}

\* the keywords; the token type of a keyword is named as the keyword
tokenTypeMap ==
  {"VAR", "ITEM", "DESC", "LOCATION", "TAKEABLE", "ID", "ROOM", "COMMAND",
   "EFFECT", "EXECUTE", "SCRIPT", "MESSAGE", "IF", "HAS", "ITEMS", "THEN",
   "FOR", "IN", "DO", "ENDIF", "ENDFOR", "ENDSCRIPT"}

isDigit(ch) == ch \in Digits

isKeyword(ch) == ch \in UpperCase

isIdent(ch) == ch \in LowerCase \cup UpperCase \cup {"_"}

isWhiteSpace(ch) == ch # "\n" /\ ch \in {" ", "\t", "\r"}

isEndOfLine(ch) == ch = "\n"

Lexer_new(src) ==
  [char |-> IF src = <<>> THEN "" ELSE src[1],
   cursor |-> 0, line |-> 1, col |-> 1, tokens |-> <<>>, err |-> NoError]

\* what a scanning method gives back: the lexer afterwards and the text read
Scanned(l, value) == [l |-> l, value |-> value]

Lexer_eof(src, l) == l.cursor >= Len(src) - 1

Lexer_consume(src, l) ==
  IF Failed(l) THEN l
  ELSE IF ~(l.cursor < Len(src)) THEN Throw(l, AssertionError)
  ELSE LET moved(cursor) ==
             [l EXCEPT !.col = IF l.char = "\n" THEN 1 ELSE l.col + 1,
                       !.cursor = cursor]
       IN IF l.cursor + 1 < Len(src)
            THEN [moved(l.cursor + 1) EXCEPT !.char = src[l.cursor + 2]]
          ELSE Throw(moved(l.cursor + 1), AssertionError)

Lexer_addToken(l, type, value, col) ==
  IF Failed(l) THEN l
  ELSE [l EXCEPT !.tokens =
          Append(@, [type |-> type, value |-> value, line |-> l.line, col |-> col])]

RECURSIVE Lexer_skipWhitespace(_, _)
Lexer_skipWhitespace(src, l) ==
  IF Failed(l) \/ ~isWhiteSpace(l.char) THEN l
  ELSE Lexer_skipWhitespace(src, Lexer_consume(src, l))

RECURSIVE Lexer_skipComment(_, _)
Lexer_skipComment(src, l) ==
  IF Failed(l) \/ isEndOfLine(l.char) THEN l
  ELSE Lexer_skipComment(src, Lexer_consume(src, l))

\* the loop of scanKeyword; keyword is the text read so far
RECURSIVE Lexer_scanKeyword(_, _, _)
Lexer_scanKeyword(src, l, keyword) ==
  IF Failed(l) \/ ~isKeyword(l.char) THEN Scanned(l, keyword)
  ELSE Lexer_scanKeyword(src, Lexer_consume(src, l), keyword \o l.char)

\* the loop of scanNumber
RECURSIVE Lexer_scanNumber(_, _, _)
Lexer_scanNumber(src, l, value) ==
  IF Failed(l) \/ ~isDigit(l.char) THEN Scanned(l, value)
  ELSE Lexer_scanNumber(src, Lexer_consume(src, l), value \o l.char)

\* the loop of scanIdentifierOrBooleanLiteral
RECURSIVE Lexer_scanIdentifierOrBooleanLiteral(_, _, _)
Lexer_scanIdentifierOrBooleanLiteral(src, l, ident) ==
  IF Failed(l) \/ ~isIdent(l.char) THEN Scanned(l, ident)
  ELSE Lexer_scanIdentifierOrBooleanLiteral(src, Lexer_consume(src, l), ident \o l.char)

\* the loop of scanString
RECURSIVE Lexer_stringBody(_, _, _)
Lexer_stringBody(src, l, value) ==
  IF Failed(l) \/ l.char \in Quotes THEN Scanned(l, value)
  ELSE Lexer_stringBody(src, Lexer_consume(src, l), value \o l.char)

Lexer_scanString(src, l) ==
  LET closing(quote, body) ==
        IF Failed(body.l) THEN body
        ELSE IF body.l.char # quote
          THEN Scanned(Throw(body.l, LexerError(body.l.line, body.l.col)), body.value)
        ELSE Scanned(Lexer_consume(src, body.l), body.value)
  IN IF Failed(l) THEN Scanned(l, "")
     ELSE IF l.char \notin Quotes
       THEN Scanned(Throw(l, LexerError(l.line, l.col)), "")
     ELSE closing(l.char, Lexer_stringBody(src, Lexer_consume(src, l), ""))

\* scan '=': one character of lookahead decides between = and ==
Lexer_scanAssignment(src, l) ==
  IF ~(l.cursor + 1 < Len(src)) THEN Throw(l, AssertionError)
  ELSE IF src[l.cursor + 2] = "="
    THEN Lexer_consume(src,
           Lexer_addToken(Lexer_consume(src, l), "EQ", "==", l.col))
  ELSE Lexer_consume(src, Lexer_addToken(l, "ASSIGNMENT", "=", l.col))

Lexer_scan(src, l) ==
  LET col == l.col
      ch == l.char
      keyword(scanned) ==
        IF Failed(scanned.l) THEN scanned.l
        ELSE IF scanned.value \notin tokenTypeMap
          THEN Throw(scanned.l, LexerError(0, 0))
        ELSE Lexer_addToken(scanned.l, scanned.value, scanned.value, col)
      identifier(scanned) ==
        Lexer_addToken(scanned.l,
                       IF scanned.value \in {"true", "false"} THEN "BOOL" ELSE "IDENT",
                       scanned.value, col)
      literal(type, scanned) == Lexer_addToken(scanned.l, type, scanned.value, col)
  IN IF Failed(l) THEN l
     ELSE IF ch = "\n"
       THEN Lexer_consume(src,
              Lexer_addToken([l EXCEPT !.line = l.line + 1], "EOL", "NEWLINE", col))
     ELSE IF ch = "=" THEN Lexer_scanAssignment(src, l)
     ELSE IF ch = "." THEN Lexer_consume(src, Lexer_addToken(l, "DOT", ch, col))
     ELSE IF ch = "[" THEN Lexer_consume(src, Lexer_addToken(l, "LBRACKET", ch, col))
     ELSE IF ch = "]" THEN Lexer_consume(src, Lexer_addToken(l, "RBRACKET", ch, col))
     ELSE IF ch \in Quotes THEN literal("STRING", Lexer_scanString(src, l))
     ELSE IF ch = "#" THEN Lexer_skipComment(src, l)
     ELSE IF isKeyword(ch) THEN keyword(Lexer_scanKeyword(src, l, ""))
     ELSE IF isIdent(ch)
       THEN identifier(Lexer_scanIdentifierOrBooleanLiteral(src, l, ""))
     ELSE IF isDigit(ch) THEN literal("NUMBER", Lexer_scanNumber(src, l, ""))
     ELSE Throw(l, LexerError(l.line, l.col))

\* one iteration of the loop of tokenize
Lexer_iteration(src, l) == Lexer_scan(src, Lexer_skipWhitespace(src, l))

\* the end of tokenize: the final end-of-line and end-of-file tokens
Lexer_finish(l) ==
  Lexer_addToken(Lexer_addToken(l, "EOL", "EOL", l.col), "EOF", "EOF", l.col)

RECURSIVE Lexer_loop(_, _)
Lexer_loop(src, l) ==
  IF Failed(l) THEN l
  ELSE IF Lexer_eof(src, l) THEN Lexer_finish(l)
  ELSE Lexer_loop(src, Lexer_iteration(src, l))

\* Lexer.tokenize on a fresh Lexer: the lexer it ends with, holding the tokens
\* returned or the error thrown
Lexer_tokenize(src) ==
  IF src = <<>> THEN Lexer_new(src) ELSE Lexer_loop(src, Lexer_new(src))

----------------------------------------------------------------------------
(* Maps *)

EmptyMap == [k \in {} |-> {}]

Has(m, k) == k \in DOMAIN m

MapSet(m, k, v) == [x \in (DOMAIN m) \cup {k} |-> IF x = k THEN v ELSE m[x]]

----------------------------------------------------------------------------
(* Pass 1: SymbolParser *)

\* this.currentToken; past the end of the list it is undefined
CurrentToken(toks, s) ==
  IF s.currentPosition < Len(toks) THEN toks[s.currentPosition + 1]
  ELSE [type |-> "undefined", value |-> "", line |-> 0, col |-> 0]

createSymbol(type, line, col) ==
  [type |-> type, definitionLine |-> line, definitionColumn |-> col]

SymbolParser_new(toks) ==
  [currentPosition |-> 0, symbolsMap |-> EmptyMap, err |-> NoError]

SymbolParser_consume(toks, s) ==
  IF Failed(s) THEN s
  ELSE IF ~(s.currentPosition < Len(toks)) THEN Throw(s, OutOfBounds)
  ELSE LET next == [s EXCEPT !.currentPosition = s.currentPosition + 1]
       IN IF next.currentPosition < Len(toks) THEN next
          ELSE Throw(next, OutOfBounds)

SymbolParser_expect(toks, s, tokenType) ==
  IF Failed(s) THEN s
  ELSE IF CurrentToken(toks, s).type # tokenType
    THEN Throw(s, UnexpectedTokenError(CurrentToken(toks, s).line, CurrentToken(toks, s).col))
  ELSE SymbolParser_consume(toks, s)

\* skipToNextLine that leaves the rest of the line to the loop of parse
SymbolParser_skipToNextLine_Staying(toks, s) == s

RECURSIVE SymbolParser_skipToNextLine(_, _)
SymbolParser_skipToNextLine(toks, s) ==
  IF Failed(s) THEN s
  ELSE IF CurrentToken(toks, s).type # "EOL"
    THEN SymbolParser_skipToNextLine(toks, SymbolParser_consume(toks, s))
  ELSE SymbolParser_consume(toks, s)

\* skipBlock without the end-of-file test of its loop
RECURSIVE SymbolParser_skipBlock_Unguarded(_, _, _, _)
SymbolParser_skipBlock_Unguarded(toks, s, startToken, endTokenType) ==
  IF Failed(s) THEN s
  ELSE IF CurrentToken(toks, s).type # endTokenType
    THEN SymbolParser_skipBlock_Unguarded(toks, SymbolParser_consume(toks, s),
                                          startToken, endTokenType)
  ELSE s

RECURSIVE SymbolParser_skipBlock(_, _, _, _)
SymbolParser_skipBlock(toks, s, startToken, endTokenType) ==
  IF Failed(s) THEN s
  ELSE IF CurrentToken(toks, s).type # endTokenType /\ CurrentToken(toks, s).type # "EOF"
    THEN SymbolParser_skipBlock(toks, SymbolParser_consume(toks, s), startToken, endTokenType)
  ELSE IF CurrentToken(toks, s).type # endTokenType
    THEN Throw(s, UnterminatedBlockError(startToken.line, startToken.col))
  ELSE s

\* SymbolParser_register without the duplicate check: a second declaration
\* overwrites the entry of the first
SymbolParser_register_Overwriting(toks, s, entity, missingKind, definedKind) ==
  IF Failed(s) THEN s
  ELSE LET tok == CurrentToken(toks, s)
       IN IF tok.type # "IDENT" THEN Throw(s, MissingNameError(missingKind, tok.line, tok.col))
          ELSE [s EXCEPT !.symbolsMap =
                  MapSet(s.symbolsMap, tok.value, createSymbol(entity, tok.line, tok.col))]

\* the identifier check, the duplicate check and the registration shared in
\* shape by the four definition parsers
SymbolParser_register(toks, s, entity, missingKind, definedKind) ==
  IF Failed(s) THEN s
  ELSE LET tok == CurrentToken(toks, s)
       IN IF tok.type # "IDENT" THEN Throw(s, MissingNameError(missingKind, tok.line, tok.col))
          ELSE IF Has(s.symbolsMap, tok.value)
            THEN Throw(s, AlreadyDefinedError(definedKind, tok.value,
                          s.symbolsMap[tok.value].definitionLine,
                          s.symbolsMap[tok.value].definitionColumn,
                          tok.line, tok.col))
          ELSE [s EXCEPT !.symbolsMap =
                  MapSet(s.symbolsMap, tok.value, createSymbol(entity, tok.line, tok.col))]

SymbolParser_parseVariableDefinition(toks, s) ==
  LET s1 == SymbolParser_expect(toks, s, "VAR")
      s2 == SymbolParser_register(toks, s1, "VARIABLE",
                                  "MissingVariableNameError", "VariableAlreadyDefinedError")
  IN SymbolParser_skipToNextLine(toks, s2)

SymbolParser_parseItemDefinition(toks, s) ==
  LET s1 == SymbolParser_expect(toks, s, "ITEM")
      s2 == SymbolParser_expect(toks, s1, "STRING")
      s3 == SymbolParser_expect(toks, s2, "ID")
      s4 == SymbolParser_expect(toks, s3, "ASSIGNMENT")
      s5 == SymbolParser_register(toks, s4, "ITEM",
                                  "MissingItemIdentifierError", "ItemAlreadyDefinedError")
      s6 == SymbolParser_consume(toks, s5)
  IN SymbolParser_expect(toks, s6, "EOL")

\* parseRoomDefinition of pass 1 registering the room with the kind of an item
SymbolParser_parseRoomDefinition_AsItem(toks, s) ==
  LET s1 == SymbolParser_expect(toks, s, "ROOM")
      s2 == SymbolParser_expect(toks, s1, "STRING")
      s3 == SymbolParser_expect(toks, s2, "ID")
      s4 == SymbolParser_expect(toks, s3, "ASSIGNMENT")
      s5 == SymbolParser_register(toks, s4, "ITEM",
                                  "MissingRoomIdentifierError", "RoomAlreadyDefinedError")
      s6 == SymbolParser_consume(toks, s5)
  IN SymbolParser_expect(toks, s6, "EOL")

SymbolParser_parseRoomDefinition(toks, s) ==
  LET s1 == SymbolParser_expect(toks, s, "ROOM")
      s2 == SymbolParser_expect(toks, s1, "STRING")
      s3 == SymbolParser_expect(toks, s2, "ID")
      s4 == SymbolParser_expect(toks, s3, "ASSIGNMENT")
      s5 == SymbolParser_register(toks, s4, "ROOM",
                                  "MissingRoomIdentifierError", "RoomAlreadyDefinedError")
      s6 == SymbolParser_consume(toks, s5)
  IN SymbolParser_expect(toks, s6, "EOL")

SymbolParser_parseScriptDefinition(toks, s) ==
  LET s1 == SymbolParser_expect(toks, s, "SCRIPT")
      s2 == SymbolParser_register(toks, s1, "SCRIPT",
                                  "MissingScriptIdentifierError", "ScriptAlreadyDefinedError")
  IN SymbolParser_skipBlock(toks, s2, CurrentToken(toks, s1), "ENDSCRIPT")

\* one iteration of the loop of SymbolParser.parse
SymbolParser_step(toks, s) ==
  LET type == CurrentToken(toks, s).type
  IN CASE type = "VAR" -> SymbolParser_parseVariableDefinition(toks, s)
       [] type = "ITEM" -> SymbolParser_parseItemDefinition(toks, s)
       [] type = "ROOM" -> SymbolParser_parseRoomDefinition(toks, s)
       [] type = "SCRIPT" -> SymbolParser_parseScriptDefinition(toks, s)
       [] OTHER -> SymbolParser_consume(toks, s)

SymbolParser_finished(toks, s) ==
  Len(toks) = 0 \/ CurrentToken(toks, s).type = "EOF"

RECURSIVE SymbolParser_parse(_, _)
SymbolParser_parse(toks, s) ==
  IF Failed(s) \/ SymbolParser_finished(toks, s) THEN s
  ELSE SymbolParser_parse(toks, SymbolParser_step(toks, s))

----------------------------------------------------------------------------
(* GameDefinitionBuilder *)

PLAYER_LOCATION_VAR == "playerLocation"

\* a VariableValue (string | boolean | number) with its run-time type
Val(typeof, str, num, bool) == [typeof |-> typeof, str |-> str, num |-> num, bool |-> bool]

StringValue(str) == Val("string", str, 0, FALSE)

NumberValue(num) == Val("number", "", num, FALSE)

BooleanValue(bool) == Val("boolean", "", 0, bool)

GameDefinitionBuilder_new ==
  [variables |-> (PLAYER_LOCATION_VAR :>
                    [name |-> "", type |-> "ID", initialValue |-> StringValue(""),
                     line |-> 0, col |-> 0]),
   items |-> EmptyMap,
   rooms |-> EmptyMap,
   commands |-> <<>>,
   scripts |-> ("displayRoomInfo" :> [id |-> "", body |-> <<>>, line |-> 0, col |-> 0]),
   playerStartLocation |-> ""]

\* what a builder call gives back: the accumulated definition, or an error
Built(gameDefinition) == [gameDefinition |-> gameDefinition, err |-> NoError]

BuilderThrow(gameDefinition, e) == [gameDefinition |-> gameDefinition, err |-> e]

setInitialItemDefinition(gd, definition) ==
  Built([gd EXCEPT !.items =
           MapSet(gd.items, definition.id,
                  [id |-> definition.id, name |-> definition.name,
                   line |-> definition.line, col |-> definition.col,
                   desc |-> "", initialLocation |-> "", interactions |-> <<>>])])

\* setItemDesc that returns without asserting that the item is registered
setItemDesc_Unasserted(gd, itemId, desc) ==
  IF ~Has(gd.items, itemId) THEN Built(gd)
  ELSE Built([gd EXCEPT !.items[itemId].desc = desc])

setItemDesc(gd, itemId, desc) ==
  IF ~Has(gd.items, itemId)
    THEN BuilderThrow(gd, NotRegistered("setInitialItemDefinition"))
  ELSE Built([gd EXCEPT !.items[itemId].desc = desc])

setItemLocation(gd, itemId, location) ==
  IF ~Has(gd.items, itemId)
    THEN BuilderThrow(gd, NotRegistered("setInitialItemDefinition"))
  ELSE Built([gd EXCEPT !.items[itemId].initialLocation = location])

\* setItemInteraction that replaces the interactions instead of pushing
setItemInteraction_Replacing(gd, itemId, interaction) ==
  IF ~Has(gd.items, itemId)
    THEN BuilderThrow(gd, NotRegistered("setInitialItemDefinition"))
  ELSE Built([gd EXCEPT !.items[itemId].interactions = <<interaction>>])

setItemInteraction(gd, itemId, interaction) ==
  IF ~Has(gd.items, itemId)
    THEN BuilderThrow(gd, NotRegistered("setInitialItemDefinition"))
  ELSE Built([gd EXCEPT !.items[itemId].interactions = Append(@, interaction)])

\* setVariable without the kind check of the start-location variable
setVariable_AnyKind(gd, variableName, data, symbols) ==
  IF data.type = "ID" /\ data.initialValue.typeof # "string"
    THEN BuilderThrow(gd, AssertionError)
  ELSE IF data.type = "ID" /\ ~Has(symbols, data.initialValue.str)
    THEN BuilderThrow(gd, UndefinedIdentifierError(data.initialValue.str, data.line, data.col))
  ELSE LET located ==
             IF data.type = "ID" /\ variableName = PLAYER_LOCATION_VAR
               THEN [gd EXCEPT !.playerStartLocation = data.initialValue.str]
             ELSE gd
       IN Built([located EXCEPT !.variables = MapSet(located.variables, variableName, data)])

\* setVariable without the lookup of the referenced symbol
setVariable_Unresolved(gd, variableName, data, symbols) ==
  IF data.type = "ID" /\ data.initialValue.typeof # "string"
    THEN BuilderThrow(gd, AssertionError)
  ELSE IF data.type = "ID" /\ variableName = PLAYER_LOCATION_VAR
          /\ Has(symbols, data.initialValue.str)
          /\ symbols[data.initialValue.str].type # "ROOM"
    THEN BuilderThrow(gd, ReferenceError(data.line, data.col))
  ELSE LET located ==
             IF data.type = "ID" /\ variableName = PLAYER_LOCATION_VAR
               THEN [gd EXCEPT !.playerStartLocation = data.initialValue.str]
             ELSE gd
       IN Built([located EXCEPT !.variables = MapSet(located.variables, variableName, data)])

setVariable(gd, variableName, data, symbols) ==
  IF data.type = "ID" /\ data.initialValue.typeof # "string"
    THEN BuilderThrow(gd, AssertionError)
  ELSE IF data.type = "ID" /\ ~Has(symbols, data.initialValue.str)
    THEN BuilderThrow(gd, UndefinedIdentifierError(data.initialValue.str, data.line, data.col))
  ELSE IF data.type = "ID" /\ variableName = PLAYER_LOCATION_VAR
          /\ symbols[data.initialValue.str].type # "ROOM"
    THEN BuilderThrow(gd, ReferenceError(data.line, data.col))
  ELSE LET located ==
             IF data.type = "ID" /\ variableName = PLAYER_LOCATION_VAR
               THEN [gd EXCEPT !.playerStartLocation = data.initialValue.str]
             ELSE gd
       IN Built([located EXCEPT !.variables = MapSet(located.variables, variableName, data)])

setInitialRoomDefinition(gd, definition) ==
  Built([gd EXCEPT !.rooms =
           MapSet(gd.rooms, definition.id,
                  [id |-> definition.id, name |-> definition.name,
                   line |-> definition.line, col |-> definition.col, desc |-> ""])])

setRoomDesc(gd, roomId, desc) ==
  IF ~Has(gd.rooms, roomId)
    THEN BuilderThrow(gd, NotRegistered("setInitialRoomDefinition"))
  ELSE Built([gd EXCEPT !.rooms[roomId].desc = desc])

addCommand(gd, command) ==
  Built([gd EXCEPT !.commands = Append(@, command)])

setInitialScriptDefinition(gd, definition) ==
  Built([gd EXCEPT !.scripts =
           MapSet(gd.scripts, definition.id,
                  [id |-> definition.id, body |-> <<>>,
                   line |-> definition.line, col |-> definition.col])])

setScriptBody(gd, scriptId, body) ==
  IF ~Has(gd.scripts, scriptId)
    THEN BuilderThrow(gd, NotRegistered("setInitialScriptDefinition"))
  ELSE Built([gd EXCEPT !.scripts[scriptId].body = body])

----------------------------------------------------------------------------
(* Pass 2: Parser *)

Parser_new(toks, symbolsMap) ==
  [currentPosition |-> 0, symbolsMap |-> symbolsMap,
   gameDefinition |-> GameDefinitionBuilder_new, err |-> NoError]

\* a parsing method's outcome: the parser afterwards and the value it returns
Ret(p, val) == [p |-> p, val |-> val]

\* the parser after a call of its builder
Build(p, built) ==
  IF Failed(p) THEN p
  ELSE IF built.err.kind # "None" THEN Throw(p, built.err)
  ELSE [p EXCEPT !.gameDefinition = built.gameDefinition]

Parser_consume(toks, p) ==
  IF Failed(p) THEN p
  ELSE IF ~(p.currentPosition < Len(toks)) THEN Throw(p, OutOfBounds)
  ELSE LET next == [p EXCEPT !.currentPosition = p.currentPosition + 1]
       IN IF next.currentPosition < Len(toks) THEN next
          ELSE Throw(next, OutOfBounds)

Parser_expect(toks, p, tokenType) ==
  IF Failed(p) THEN p
  ELSE IF CurrentToken(toks, p).type # tokenType
    THEN Throw(p, UnexpectedTokenError(CurrentToken(toks, p).line, CurrentToken(toks, p).col))
  ELSE Parser_consume(toks, p)

\* parseFloat of the text of a NUMBER token (a run of digits); -1 stands for NaN
parseFloat(text) ==
  CASE text = "5" -> 5
    [] text = "10" -> 10
    [] text = "007" -> 7
    [] OTHER -> -1

Parser_parseVariableValue(toks, p) ==
  IF Failed(p) THEN Ret(p, [variableValue |-> StringValue(""), variableType |-> "STRING"])
  ELSE LET valueToken == CurrentToken(toks, p)
       IN CASE valueToken.type = "NUMBER" ->
                 IF parseFloat(valueToken.value) = -1
                   THEN Ret(Throw(p, Err("InvalidNumberFormatError", "",
                                         valueToken.line, valueToken.col, 0, 0)),
                            [variableValue |-> StringValue(""), variableType |-> "STRING"])
                 ELSE Ret(p, [variableValue |-> NumberValue(parseFloat(valueToken.value)),
                              variableType |-> "NUMBER"])
            [] valueToken.type = "STRING" ->
                 Ret(p, [variableValue |-> StringValue(valueToken.value),
                         variableType |-> "STRING"])
            [] valueToken.type = "BOOL" ->
                 IF valueToken.value \notin {"true", "false"}
                   THEN Ret(Throw(p, AssertionError),
                            [variableValue |-> StringValue(""), variableType |-> "STRING"])
                 ELSE Ret(p, [variableValue |-> BooleanValue(valueToken.value = "true"),
                              variableType |-> "BOOL"])
            [] valueToken.type = "IDENT" ->
                 Ret(p, [variableValue |-> StringValue(valueToken.value),
                         variableType |-> "ID"])
            [] OTHER ->
                 Ret(Throw(p, UnexpectedTokenError(valueToken.line, valueToken.col)),
                     [variableValue |-> StringValue(""), variableType |-> "STRING"])

Parser_parseObjectDescription(toks, p) ==
  LET p1 == Parser_expect(toks, p, "DESC")
      r == Parser_parseVariableValue(toks, p1)
  IN IF Failed(r.p) THEN r
     ELSE IF r.val.variableValue.typeof # "string" THEN Ret(Throw(r.p, AssertionError), r.val)
     ELSE r

\* parseVariableDefinition taking the variable's symbol out of the table once
\* the variable is defined
Parser_parseVariableDefinition_Taking(toks, p) ==
  LET p1 == Parser_expect(toks, p, "VAR")
      nameToken == CurrentToken(toks, p1)
      variableName == nameToken.value
      p2 == IF Failed(p1) THEN p1
            ELSE IF ~Has(p1.symbolsMap, variableName)
              THEN Throw(p1, UndefinedIdentifierError(variableName, nameToken.line, nameToken.col))
            ELSE p1
      p3 == Parser_expect(toks, p2, "IDENT")
      p4 == Parser_expect(toks, p3, "ASSIGNMENT")
      r == Parser_parseVariableValue(toks, p4)
      p5 == IF Failed(r.p) THEN r.p
            ELSE Build([r.p EXCEPT !.symbolsMap =
                          [k \in DOMAIN r.p.symbolsMap \ {variableName} |-> r.p.symbolsMap[k]]],
                       setVariable(r.p.gameDefinition, variableName,
                                   [name |-> variableName,
                                    type |-> r.val.variableType,
                                    line |-> nameToken.line,
                                    col |-> nameToken.col,
                                    initialValue |-> r.val.variableValue],
                                   r.p.symbolsMap))
      p6 == Parser_consume(toks, p5)
  IN Parser_expect(toks, p6, "EOL")

Parser_parseVariableDefinition(toks, p) ==
  LET p1 == Parser_expect(toks, p, "VAR")
      nameToken == CurrentToken(toks, p1)
      variableName == nameToken.value
      p2 == IF Failed(p1) THEN p1
            ELSE IF ~Has(p1.symbolsMap, variableName)
              THEN Throw(p1, UndefinedIdentifierError(variableName, nameToken.line, nameToken.col))
            ELSE p1
      p3 == Parser_expect(toks, p2, "IDENT")
      p4 == Parser_expect(toks, p3, "ASSIGNMENT")
      r == Parser_parseVariableValue(toks, p4)
      p5 == IF Failed(r.p) THEN r.p
            ELSE Build(r.p, setVariable(r.p.gameDefinition, variableName,
                                        [name |-> variableName,
                                         type |-> r.val.variableType,
                                         line |-> nameToken.line,
                                         col |-> nameToken.col,
                                         initialValue |-> r.val.variableValue],
                                        r.p.symbolsMap))
      p6 == Parser_consume(toks, p5)
  IN Parser_expect(toks, p6, "EOL")

\* the header of parseItemDefinition without the registration of the item
Parser_itemHeader_Unregistered(toks, p) ==
  LET itemToken == CurrentToken(toks, p)
      p1 == Parser_expect(toks, p, "ITEM")
      name == CurrentToken(toks, p1).value
      p2 == Parser_expect(toks, p1, "STRING")
      p3 == Parser_expect(toks, p2, "ID")
      p4 == Parser_expect(toks, p3, "ASSIGNMENT")
      idToken == CurrentToken(toks, p4)
      identifier == idToken.value
      p5 == IF Failed(p4) THEN p4
            ELSE IF ~Has(p4.symbolsMap, identifier)
              THEN Throw(p4, UndefinedIdentifierError(identifier, idToken.line, idToken.col))
            ELSE p4
      p6 == Parser_expect(toks, p5, "IDENT")
      p7 == Parser_expect(toks, p6, "EOL")
  IN Ret(p7, identifier)

\* parseItemDefinition up to the registration of the item
Parser_itemHeader(toks, p) ==
  LET itemToken == CurrentToken(toks, p)
      p1 == Parser_expect(toks, p, "ITEM")
      name == CurrentToken(toks, p1).value
      p2 == Parser_expect(toks, p1, "STRING")
      p3 == Parser_expect(toks, p2, "ID")
      p4 == Parser_expect(toks, p3, "ASSIGNMENT")
      idToken == CurrentToken(toks, p4)
      identifier == idToken.value
      p5 == IF Failed(p4) THEN p4
            ELSE IF ~Has(p4.symbolsMap, identifier)
              THEN Throw(p4, UndefinedIdentifierError(identifier, idToken.line, idToken.col))
            ELSE p4
      p6 == Parser_expect(toks, p5, "IDENT")
      p7 == Parser_expect(toks, p6, "EOL")
  IN Ret(IF Failed(p7) THEN p7
         ELSE Build(p7, setInitialItemDefinition(p7.gameDefinition,
                          [id |-> identifier, name |-> name,
                           line |-> itemToken.line, col |-> itemToken.col])),
         identifier)

itemProperties == {"DESC", "LOCATION", "TAKEABLE"}

\* one iteration of the property loop of parseItemDefinition
Parser_itemProperty(toks, p, identifier) ==
  LET type == CurrentToken(toks, p).type
  IN CASE type = "DESC" ->
            LET r == Parser_parseObjectDescription(toks, p)
                p1 == IF Failed(r.p) THEN r.p
                      ELSE Build(r.p, setItemDesc(r.p.gameDefinition, identifier,
                                                  r.val.variableValue.str))
                p2 == Parser_consume(toks, p1)
            IN Parser_expect(toks, p2, "EOL")
       [] type = "LOCATION" ->
            LET p1 == Parser_expect(toks, p, "LOCATION")
                p2 == Parser_expect(toks, p1, "ASSIGNMENT")
                r == Parser_parseVariableValue(toks, p2)
                p3 == IF Failed(r.p) THEN r.p
                      ELSE IF r.val.variableValue.typeof # "string"
                        THEN Throw(r.p, AssertionError)
                      ELSE IF ~Has(r.p.symbolsMap, r.val.variableValue.str)
                        THEN Throw(r.p, UndefinedIdentifierError(
                                          r.val.variableValue.str,
                                          CurrentToken(toks, r.p).line,
                                          CurrentToken(toks, r.p).col))
                      ELSE Build(r.p, setItemLocation(r.p.gameDefinition, identifier,
                                                      r.val.variableValue.str))
                p4 == Parser_consume(toks, p3)
            IN Parser_expect(toks, p4, "EOL")
       [] type = "TAKEABLE" ->
            LET p1 == Parser_expect(toks, p, "TAKEABLE")
                p2 == Parser_expect(toks, p1, "ASSIGNMENT")
                r == Parser_parseVariableValue(toks, p2)
                p3 == IF Failed(r.p) THEN r.p
                      ELSE IF r.val.variableValue.typeof # "boolean"
                        THEN Throw(r.p, AssertionError)
                      ELSE IF r.val.variableValue.bool
                        THEN Build(r.p, setItemInteraction(r.p.gameDefinition,
                                                           identifier, "Takeable"))
                      ELSE r.p
                p4 == Parser_consume(toks, p3)
            IN Parser_expect(toks, p4, "EOL")
       [] OTHER -> p

\* the property loop of parseItemDefinition
RECURSIVE Parser_itemProperties(_, _, _)
Parser_itemProperties(toks, p, identifier) ==
  IF Failed(p) \/ CurrentToken(toks, p).type \notin itemProperties THEN p
  ELSE Parser_itemProperties(toks, Parser_itemProperty(toks, p, identifier), identifier)

Parser_parseItemDefinition(toks, p) ==
  LET header == Parser_itemHeader(toks, p)
  IN Parser_itemProperties(toks, header.p, header.val)

\* parseRoomDefinition up to the registration of the room
Parser_roomHeader(toks, p) ==
  LET roomToken == CurrentToken(toks, p)
      p1 == Parser_expect(toks, p, "ROOM")
      name == CurrentToken(toks, p1).value
      p2 == Parser_expect(toks, p1, "STRING")
      p3 == Parser_expect(toks, p2, "ID")
      p4 == Parser_expect(toks, p3, "ASSIGNMENT")
      idToken == CurrentToken(toks, p4)
      identifier == idToken.value
      p5 == IF Failed(p4) THEN p4
            ELSE IF ~Has(p4.symbolsMap, identifier)
              THEN Throw(p4, UndefinedIdentifierError(identifier, idToken.line, idToken.col))
            ELSE p4
      p6 == Parser_expect(toks, p5, "IDENT")
      p7 == Parser_expect(toks, p6, "EOL")
  IN Ret(IF Failed(p7) THEN p7
         ELSE Build(p7, setInitialRoomDefinition(p7.gameDefinition,
                          [id |-> identifier, name |-> name,
                           line |-> roomToken.line, col |-> roomToken.col])),
         identifier)

roomProperties == {"DESC"}

\* one iteration of the property loop of parseRoomDefinition
Parser_roomProperty(toks, p, identifier) ==
  IF CurrentToken(toks, p).type = "DESC"
    THEN LET r == Parser_parseObjectDescription(toks, p)
             p1 == IF Failed(r.p) THEN r.p
                   ELSE Build(r.p, setRoomDesc(r.p.gameDefinition, identifier,
                                               r.val.variableValue.str))
             p2 == Parser_consume(toks, p1)
         IN Parser_expect(toks, p2, "EOL")
  ELSE Throw(p, Err("Error", "not yet implemented", 0, 0, 0, 0))

\* the property loop of parseRoomDefinition
RECURSIVE Parser_roomProperties(_, _, _)
Parser_roomProperties(toks, p, identifier) ==
  IF Failed(p) \/ CurrentToken(toks, p).type \notin roomProperties THEN p
  ELSE Parser_roomProperties(toks, Parser_roomProperty(toks, p, identifier), identifier)

Parser_parseRoomDefinition(toks, p) ==
  LET header == Parser_roomHeader(toks, p)
  IN Parser_roomProperties(toks, header.p, header.val)

\* parseCommandDefinition up to its EFFECT loop
Parser_commandHeader(toks, p) ==
  LET commandToken == CurrentToken(toks, p)
      p1 == Parser_expect(toks, p, "COMMAND")
      commandVerb == CurrentToken(toks, p1).value
      p2 == Parser_expect(toks, p1, "STRING")
      p3 == Parser_expect(toks, p2, "EOL")
  IN Ret(p3, [line |-> commandToken.line, col |-> commandToken.col, verb |-> commandVerb])

commandProperties == {"EFFECT"}

\* the EFFECT iteration taking every keyword after EFFECT for EXECUTE
Parser_commandProperty_AnyEffect(toks, p, command) ==
  LET effectToken == CurrentToken(toks, p)
      p1 == Parser_expect(toks, p, "EFFECT")
  IN IF Failed(p1) THEN p1
     ELSE IF CurrentToken(toks, p1).type # "EOL"
       THEN LET p2 == Parser_consume(toks, p1)
                scriptToken == CurrentToken(toks, p2)
                scriptName == scriptToken.value
                p3 == IF Failed(p2) THEN p2
                      ELSE IF ~Has(p2.symbolsMap, scriptName)
                        THEN Throw(p2, UndefinedIdentifierError(
                                         scriptName, scriptToken.line, scriptToken.col))
                      ELSE Build(p2, addCommand(p2.gameDefinition,
                               [line |-> command.line,
                                col |-> command.col,
                                verb |-> command.verb,
                                effect |-> [kind |-> "callScript",
                                            scriptId |-> scriptName,
                                            line |-> effectToken.line,
                                            col |-> effectToken.col]]))
                p4 == Parser_consume(toks, p3)
            IN Parser_expect(toks, p4, "EOL")
     ELSE Throw(p1, UnexpectedTokenError(effectToken.line, effectToken.col))

\* one iteration of the EFFECT loop of parseCommandDefinition
Parser_commandProperty(toks, p, command) ==
  LET effectToken == CurrentToken(toks, p)
      p1 == Parser_expect(toks, p, "EFFECT")
  IN IF Failed(p1) THEN p1
     ELSE IF CurrentToken(toks, p1).type = "EXECUTE"
       THEN LET p2 == Parser_consume(toks, p1)
                scriptToken == CurrentToken(toks, p2)
                scriptName == scriptToken.value
                p3 == IF Failed(p2) THEN p2
                      ELSE IF ~Has(p2.symbolsMap, scriptName)
                        THEN Throw(p2, UndefinedIdentifierError(
                                         scriptName, scriptToken.line, scriptToken.col))
                      ELSE Build(p2, addCommand(p2.gameDefinition,
                               [line |-> command.line,
                                col |-> command.col,
                                verb |-> command.verb,
                                effect |-> [kind |-> "callScript",
                                            scriptId |-> scriptName,
                                            line |-> effectToken.line,
                                            col |-> effectToken.col]]))
                p4 == Parser_consume(toks, p3)
            IN Parser_expect(toks, p4, "EOL")
     ELSE Throw(p1, UnexpectedTokenError(effectToken.line, effectToken.col))

\* the EFFECT loop of parseCommandDefinition
RECURSIVE Parser_commandProperties(_, _, _)
Parser_commandProperties(toks, p, command) ==
  IF Failed(p) \/ CurrentToken(toks, p).type \notin commandProperties THEN p
  ELSE Parser_commandProperties(toks, Parser_commandProperty(toks, p, command), command)

Parser_parseCommandDefinition(toks, p) ==
  LET header == Parser_commandHeader(toks, p)
  IN Parser_commandProperties(toks, header.p, header.val)

----------------------------------------------------------------------------
(* Pass 2: script bodies *)

NoNode == [kind |-> "none"]

\* parsePrimaryExpression with a symbol lookup of the identifier
Parser_parsePrimaryExpression_Resolved(toks, p) ==
  IF Failed(p) THEN Ret(p, NoNode)
  ELSE LET token == CurrentToken(toks, p)
       IN IF token.type = "IDENT" /\ ~Has(p.symbolsMap, token.value)
            THEN Ret(Throw(p, UndefinedIdentifierError(token.value, token.line, token.col)),
                     NoNode)
          ELSE IF token.type = "IDENT"
            THEN Ret(Parser_consume(toks, p),
                     [kind |-> "variableAccess", variableName |-> token.value,
                      line |-> token.line, col |-> token.col])
          ELSE Ret(Throw(p, UnexpectedTokenError(token.line, token.col)), NoNode)

Parser_parsePrimaryExpression(toks, p) ==
  IF Failed(p) THEN Ret(p, NoNode)
  ELSE LET token == CurrentToken(toks, p)
       IN IF token.type = "IDENT"
            THEN Ret(Parser_consume(toks, p),
                     [kind |-> "variableAccess", variableName |-> token.value,
                      line |-> token.line, col |-> token.col])
          ELSE Ret(Throw(p, UnexpectedTokenError(token.line, token.col)), NoNode)

RECURSIVE Parser_parseExpression(_, _)
RECURSIVE Parser_accessChain(_, _)

\* the suffix loop of parseExpression with the operands of an indexed access
\* exchanged
Parser_accessChain_Exchanged(toks, left) ==
  IF Failed(left.p) THEN left
  ELSE IF CurrentToken(toks, left.p).type = "DOT"
    THEN LET property(p1) ==
               LET propertyToken == CurrentToken(toks, p1)
               IN IF Failed(p1) THEN Ret(p1, left.val)
                  ELSE IF propertyToken.type # "IDENT"
                    THEN Ret(Throw(p1, UnexpectedTokenError(propertyToken.line,
                                                            propertyToken.col)),
                             left.val)
                  ELSE Parser_accessChain(toks,
                         Ret(Parser_consume(toks, p1),
                             [kind |-> "propertyAccess", object |-> left.val,
                              propertyName |-> propertyToken.value,
                              line |-> propertyToken.line, col |-> propertyToken.col]))
         IN property(Parser_consume(toks, left.p))
  ELSE IF CurrentToken(toks, left.p).type = "LBRACKET"
    THEN LET lBracketToken == CurrentToken(toks, left.p)
             indexed(index) ==
               Parser_accessChain(toks,
                 Ret(Parser_expect(toks, index.p, "RBRACKET"),
                     [kind |-> "indexedAccess", object |-> index.val, index |-> left.val,
                      line |-> lBracketToken.line, col |-> lBracketToken.col]))
         IN indexed(Parser_parseExpression(toks, Parser_consume(toks, left.p)))
  ELSE left

\* the suffix loop of parseExpression; left is the parser together with the
\* expression built so far
Parser_accessChain(toks, left) ==
  IF Failed(left.p) THEN left
  ELSE IF CurrentToken(toks, left.p).type = "DOT"
    THEN LET property(p1) ==
               LET propertyToken == CurrentToken(toks, p1)
               IN IF Failed(p1) THEN Ret(p1, left.val)
                  ELSE IF propertyToken.type # "IDENT"
                    THEN Ret(Throw(p1, UnexpectedTokenError(propertyToken.line,
                                                            propertyToken.col)),
                             left.val)
                  ELSE Parser_accessChain(toks,
                         Ret(Parser_consume(toks, p1),
                             [kind |-> "propertyAccess", object |-> left.val,
                              propertyName |-> propertyToken.value,
                              line |-> propertyToken.line, col |-> propertyToken.col]))
         IN property(Parser_consume(toks, left.p))
  ELSE IF CurrentToken(toks, left.p).type = "LBRACKET"
    THEN LET lBracketToken == CurrentToken(toks, left.p)
             indexed(index) ==
               Parser_accessChain(toks,
                 Ret(Parser_expect(toks, index.p, "RBRACKET"),
                     [kind |-> "indexedAccess", object |-> left.val, index |-> index.val,
                      line |-> lBracketToken.line, col |-> lBracketToken.col]))
         IN indexed(Parser_parseExpression(toks, Parser_consume(toks, left.p)))
  ELSE left

Parser_parseExpression(toks, p) ==
  Parser_accessChain(toks, Parser_parsePrimaryExpression(toks, p))

Parser_parseCondition_AnyTarget(toks, p) ==
  LET start == CurrentToken(toks, p)
      comparison(left, right) ==
        Ret(right.p, [kind |-> "comparison", left |-> left.val, operator |-> "==",
                      right |-> right.val, line |-> start.line, col |-> start.col])
      collectionCheck(left, p2) ==
        IF Failed(p2) THEN Ret(p2, NoNode)
        ELSE IF FALSE
          THEN Ret(Throw(p2, UnexpectedTokenError(start.line, start.col)), NoNode)
        ELSE Ret(p2, [kind |-> "collectionCheck", target |-> left.val,
                      checkType |-> "HAS_ITEMS", line |-> start.line, col |-> start.col])
      condition(left) ==
        IF Failed(left.p) THEN Ret(left.p, NoNode)
        ELSE IF CurrentToken(toks, left.p).type = "HAS"
          THEN collectionCheck(left,
                 Parser_expect(toks, Parser_consume(toks, left.p), "ITEMS"))
        ELSE IF CurrentToken(toks, left.p).type = "EQ"
          THEN comparison(left, Parser_parseExpression(toks, Parser_consume(toks, left.p)))
        ELSE Ret(Throw(left.p, UnexpectedTokenError(CurrentToken(toks, left.p).line,
                                                    CurrentToken(toks, left.p).col)),
                 NoNode)
  IN IF Failed(p) THEN Ret(p, NoNode)
     ELSE condition(Parser_parseExpression(toks, p))

Parser_parseCondition(toks, p) ==
  LET start == CurrentToken(toks, p)
      comparison(left, right) ==
        Ret(right.p, [kind |-> "comparison", left |-> left.val, operator |-> "==",
                      right |-> right.val, line |-> start.line, col |-> start.col])
      collectionCheck(left, p2) ==
        IF Failed(p2) THEN Ret(p2, NoNode)
        ELSE IF left.val.kind \notin {"indexedAccess", "propertyAccess"}
          THEN Ret(Throw(p2, UnexpectedTokenError(start.line, start.col)), NoNode)
        ELSE Ret(p2, [kind |-> "collectionCheck", target |-> left.val,
                      checkType |-> "HAS_ITEMS", line |-> start.line, col |-> start.col])
      condition(left) ==
        IF Failed(left.p) THEN Ret(left.p, NoNode)
        ELSE IF CurrentToken(toks, left.p).type = "HAS"
          THEN collectionCheck(left,
                 Parser_expect(toks, Parser_consume(toks, left.p), "ITEMS"))
        ELSE IF CurrentToken(toks, left.p).type = "EQ"
          THEN comparison(left, Parser_parseExpression(toks, Parser_consume(toks, left.p)))
        ELSE Ret(Throw(left.p, UnexpectedTokenError(CurrentToken(toks, left.p).line,
                                                    CurrentToken(toks, left.p).col)),
                 NoNode)
  IN IF Failed(p) THEN Ret(p, NoNode)
     ELSE condition(Parser_parseExpression(toks, p))

\* parseMessageAction filling in both payloads of a value message
Parser_parseMessageAction_Both(toks, p) ==
  LET valueMessage(message, expression) ==
        Ret(Parser_expect(toks, expression.p, "EOL"),
            [kind |-> "message", valueExpression |-> expression.val,
             messageTemplate |-> message.value,
             line |-> message.line, col |-> message.col])
      action(p1) ==
        LET message == CurrentToken(toks, p1)
        IN IF Failed(p1) THEN Ret(p1, NoNode)
           ELSE IF message.type = "IDENT"
             THEN valueMessage(message, Parser_parseExpression(toks, p1))
           ELSE IF message.type = "STRING"
             THEN Ret(Parser_expect(toks, Parser_expect(toks, p1, "STRING"), "EOL"),
                      [kind |-> "message", messageTemplate |-> message.value,
                       line |-> message.line, col |-> message.col])
           ELSE Ret(Throw(p1, UnexpectedTokenError(message.line, message.col)), NoNode)
  IN action(Parser_expect(toks, p, "MESSAGE"))

Parser_parseMessageAction(toks, p) ==
  LET valueMessage(message, expression) ==
        Ret(Parser_expect(toks, expression.p, "EOL"),
            [kind |-> "message", valueExpression |-> expression.val,
             line |-> message.line, col |-> message.col])
      action(p1) ==
        LET message == CurrentToken(toks, p1)
        IN IF Failed(p1) THEN Ret(p1, NoNode)
           ELSE IF message.type = "IDENT"
             THEN valueMessage(message, Parser_parseExpression(toks, p1))
           ELSE IF message.type = "STRING"
             THEN Ret(Parser_expect(toks, Parser_expect(toks, p1, "STRING"), "EOL"),
                      [kind |-> "message", messageTemplate |-> message.value,
                       line |-> message.line, col |-> message.col])
           ELSE Ret(Throw(p1, UnexpectedTokenError(message.line, message.col)), NoNode)
  IN action(Parser_expect(toks, p, "MESSAGE"))

RECURSIVE Parser_parseBlockUntil(_, _, _, _)
RECURSIVE Parser_parseScriptAction(_, _)
RECURSIVE Parser_parseIfAction(_, _)
RECURSIVE Parser_parseForAction(_, _)

\* block is the list of actions pushed so far
Parser_parseBlockUntil(toks, p, endTokens, block) ==
  LET push(action) ==
        IF Failed(action.p) THEN Ret(action.p, block)
        ELSE Parser_parseBlockUntil(toks, action.p, endTokens, Append(block, action.val))
  IN IF Failed(p) THEN Ret(p, block)
     ELSE IF CurrentToken(toks, p).type \in endTokens THEN Ret(p, block)
     ELSE IF CurrentToken(toks, p).type = "EOL"
       THEN Parser_parseBlockUntil(toks, Parser_consume(toks, p), endTokens, block)
     ELSE push(Parser_parseScriptAction(toks, p))

Parser_parseScriptAction(toks, p) ==
  LET actionToken == CurrentToken(toks, p)
  IN CASE actionToken.type = "MESSAGE" -> Parser_parseMessageAction(toks, p)
       [] actionToken.type = "IF" -> Parser_parseIfAction(toks, p)
       [] actionToken.type = "FOR" -> Parser_parseForAction(toks, p)
       [] OTHER -> Ret(Throw(p, UnexpectedTokenError(actionToken.line, actionToken.col)),
                       NoNode)

Parser_parseIfAction(toks, p) ==
  LET ifToken == CurrentToken(toks, p)
      ifNode(condition, thenBranch) ==
        Ret(Parser_expect(toks, Parser_expect(toks, thenBranch.p, "ENDIF"), "EOL"),
            [kind |-> "if", condition |-> condition.val, thenBranch |-> thenBranch.val,
             line |-> ifToken.line, col |-> ifToken.col])
      then(condition) ==
        ifNode(condition,
               Parser_parseBlockUntil(toks,
                 Parser_expect(toks, Parser_expect(toks, condition.p, "THEN"), "EOL"),
                 {"ENDIF"}, <<>>))
  IN then(Parser_parseCondition(toks, Parser_expect(toks, p, "IF")))

Parser_parseForAction(toks, p) ==
  LET forToken == CurrentToken(toks, p)
      forNode(variableToken, collectionExpr, body) ==
        Ret(Parser_expect(toks, Parser_expect(toks, body.p, "ENDFOR"), "EOL"),
            [kind |-> "for", variableName |-> variableToken.value,
             collection |-> collectionExpr.val, body |-> body.val,
             line |-> forToken.line, col |-> forToken.col])
      loop(variableToken, collectionExpr) ==
        LET p4 == IF Failed(collectionExpr.p) THEN collectionExpr.p
                  ELSE IF collectionExpr.val.kind \notin
                            {"propertyAccess", "variableAccess", "indexedAccess"}
                    THEN Throw(collectionExpr.p,
                               UnexpectedTokenError(forToken.line, forToken.col))
                  ELSE collectionExpr.p
        IN forNode(variableToken, collectionExpr,
                   Parser_parseBlockUntil(toks,
                     Parser_expect(toks, Parser_expect(toks, p4, "DO"), "EOL"),
                     {"ENDFOR"}, <<>>))
      header(p1) ==
        loop(CurrentToken(toks, p1),
             Parser_parseExpression(toks,
               Parser_expect(toks, Parser_expect(toks, p1, "IDENT"), "IN")))
  IN header(Parser_expect(toks, p, "FOR"))

Parser_parseScriptDefinition(toks, p) ==
  LET scriptToken == CurrentToken(toks, p)
      body(scriptName, scriptBody) ==
        LET p5 == IF Failed(scriptBody.p) THEN scriptBody.p
                  ELSE Build(scriptBody.p, setScriptBody(scriptBody.p.gameDefinition,
                                                         scriptName, scriptBody.val))
        IN Parser_expect(toks, Parser_expect(toks, p5, "ENDSCRIPT"), "EOL")
      define(scriptName, p3) ==
        body(scriptName,
             Parser_parseBlockUntil(toks,
               IF Failed(p3) THEN p3
               ELSE Build(p3, setInitialScriptDefinition(p3.gameDefinition,
                                [id |-> scriptName,
                                 line |-> scriptToken.line, col |-> scriptToken.col])),
               {"ENDSCRIPT"}, <<>>))
      header(p1) ==
        define(CurrentToken(toks, p1).value,
               Parser_expect(toks, Parser_expect(toks, p1, "IDENT"), "EOL"))
  IN header(Parser_expect(toks, p, "SCRIPT"))

\* one iteration of the loop of Parser.parse
Parser_step(toks, p) ==
  LET type == CurrentToken(toks, p).type
  IN CASE type = "VAR" -> Parser_parseVariableDefinition(toks, p)
       [] type = "ITEM" -> Parser_parseItemDefinition(toks, p)
       [] type = "ROOM" -> Parser_parseRoomDefinition(toks, p)
       [] type = "COMMAND" -> Parser_parseCommandDefinition(toks, p)
       [] type = "SCRIPT" -> Parser_parseScriptDefinition(toks, p)
       [] type = "EOL" -> Parser_consume(toks, p)
       [] OTHER -> Parser_consume(toks, p)

Parser_finished(toks, p) ==
  Len(toks) = 0 \/ CurrentToken(toks, p).type = "EOF"

RECURSIVE Parser_parse(_, _)
Parser_parse(toks, p) ==
  IF Failed(p) \/ Parser_finished(toks, p) THEN p
  ELSE Parser_parse(toks, Parser_step(toks, p))

\* main: tokens, pass 1, pass 2 with the symbols of pass 1
main(raw) ==
  LET toks == tokenize(raw)
      s == SymbolParser_parse(toks, SymbolParser_new(toks))
  IN IF Failed(s) THEN [ok |-> FALSE, err |-> s.err, definition |-> GameDefinitionBuilder_new]
     ELSE LET p == Parser_parse(toks, Parser_new(toks, s.symbolsMap))
          IN [ok |-> ~Failed(p), err |-> p.err, definition |-> p.gameDefinition]

----------------------------------------------------------------------------
(* Sources: token-level programs built from lines of the sample program and
   their ill-formed variants *)

EOL == T("EOL", "NEWLINE")

Kw(keyword) == T(keyword, keyword)

Ident(name) == T("IDENT", name)

Str(text) == T("STRING", text)

Num(text) == T("NUMBER", text)

Bool(text) == T("BOOL", text)

VarLine(name, value) == <<Kw("VAR"), Ident(name), T("ASSIGNMENT", "="), value, EOL>>

ItemHeader(name, id) ==
  <<Kw("ITEM"), Str(name), Kw("ID"), T("ASSIGNMENT", "="), Ident(id), EOL>>

RoomHeader(name, id) ==
  <<Kw("ROOM"), Str(name), Kw("ID"), T("ASSIGNMENT", "="), Ident(id), EOL>>

DescLine(value) == <<Kw("DESC"), value, EOL>>

LocationLine(value) == <<Kw("LOCATION"), T("ASSIGNMENT", "="), value, EOL>>

TakeableLine(value) == <<Kw("TAKEABLE"), T("ASSIGNMENT", "="), value, EOL>>

CommandLine(verb) == <<Kw("COMMAND"), Str(verb), EOL>>

EffectLine(keyword, id) == <<Kw("EFFECT"), Kw(keyword), Ident(id), EOL>>

ScriptHeader(id) == <<Kw("SCRIPT"), Ident(id), EOL>>

EndScript == <<Kw("ENDSCRIPT"), EOL>>

MessageLine(value) == <<Kw("MESSAGE"), value, EOL>>

\* one name declared as each of the four kinds, and a second name
Declarations ==
  [prefix |-> <<>>, suffix |-> <<>>,
   chunks |-> {VarLine("cave", Num("5")),
               ItemHeader("Cave", "cave"),
               RoomHeader("Cave", "cave"),
               ScriptHeader("cave") \o EndScript,
               VarLine("rock", Ident("cave")),
               RoomHeader("Den", "rock"),
               <<Kw("VAR"), EOL>>,
               ScriptHeader("greet"),
               EndScript}]

Variables ==
  [prefix |-> <<>>, suffix |-> <<>>,
   chunks |-> {VarLine(PLAYER_LOCATION_VAR, Ident("cave")),
               VarLine(PLAYER_LOCATION_VAR, Num("5")),
               VarLine(PLAYER_LOCATION_VAR, Str("cave")),
               VarLine(PLAYER_LOCATION_VAR, Ident("rock")),
               VarLine(PLAYER_LOCATION_VAR, Ident("nowhere")),
               VarLine("hp", Ident("nowhere")),
               VarLine("hp", Ident("rock")),
               RoomHeader("Cave", "cave") \o DescLine(Str("dark")),
               ItemHeader("Rock", "rock")}]

Descriptions ==
  [prefix |-> <<>>, suffix |-> <<>>,
   chunks |-> {ItemHeader("Rock", "rock"),
               RoomHeader("Cave", "cave"),
               DescLine(Str("dark")),
               DescLine(Num("5")),
               DescLine(Bool("true")),
               DescLine(Ident("cave")),
               DescLine(Ident("nowhere"))}]

Locations ==
  [prefix |-> <<>>, suffix |-> <<>>,
   chunks |-> {ItemHeader("Rock", "rock"),
               RoomHeader("Cave", "cave"),
               LocationLine(Ident("cave")),
               LocationLine(Str("cave")),
               LocationLine(Num("5")),
               LocationLine(Bool("true")),
               LocationLine(Ident("nowhere")),
               LocationLine(Ident("rock"))}]

Takeables ==
  [prefix |-> <<>>, suffix |-> <<>>,
   chunks |-> {ItemHeader("Rock", "rock"),
               TakeableLine(Bool("true")),
               TakeableLine(Bool("false")),
               TakeableLine(Str("yes")),
               TakeableLine(Num("007")),
               TakeableLine(Ident("rock"))}]

Commands ==
  [prefix |-> <<>>, suffix |-> <<>>,
   chunks |-> {CommandLine("look"),
               EffectLine("EXECUTE", "greet"),
               EffectLine("EXECUTE", "cave"),
               EffectLine("EXECUTE", "nowhere"),
               EffectLine("DESC", "greet"),
               ScriptHeader("greet") \o MessageLine(Str("hi")) \o EndScript,
               RoomHeader("Cave", "cave")}]

ScriptBodies ==
  [prefix |-> RoomHeader("Cave", "cave") \o ScriptHeader("greet"),
   suffix |-> EndScript,
   chunks |-> {MessageLine(Ident("cave")),
               MessageLine(Ident("nowhere")),
               MessageLine(Str("hi")),
               MessageLine(Num("5")),
               <<Kw("IF"), Ident("cave"), T("EQ", "=="), Ident("nowhere"), Kw("THEN"), EOL>>
                 \o MessageLine(Str("in")) \o <<Kw("ENDIF"), EOL>>,
               <<Kw("IF"), Ident("cave"), Kw("HAS"), Kw("ITEMS"), Kw("THEN"), EOL,
                 Kw("ENDIF"), EOL>>,
               <<Kw("IF"), Ident("cave"), T("DOT", "."), Ident("items"),
                 Kw("HAS"), Kw("ITEMS"), Kw("THEN"), EOL, Kw("ENDIF"), EOL>>,
               <<Kw("IF"), Ident("rooms"), T("LBRACKET", "["), Ident("cave"),
                 T("RBRACKET", "]"), Kw("HAS"), Kw("ITEMS"), Kw("THEN"), EOL,
                 Kw("ENDIF"), EOL>>,
               <<Kw("FOR"), Ident("item"), Kw("IN"), Ident("rooms"),
                 T("LBRACKET", "["), Ident("cave"), T("RBRACKET", "]"),
                 T("DOT", "."), Ident("items"), Kw("DO"), EOL>>
                 \o <<Kw("MESSAGE"), Ident("item"), T("DOT", "."), Ident("name"), EOL>>
                 \o <<Kw("ENDFOR"), EOL>>,
               <<Kw("FOR"), Ident("item"), Kw("IN"), Str("rooms"), Kw("DO"), EOL,
                 Kw("ENDFOR"), EOL>>}]

Expressions ==
  [prefix |-> ScriptHeader("greet"), suffix |-> EndScript,
   chunks |-> {<<Kw("MESSAGE"), Ident("rooms"), T("LBRACKET", "["), Ident("cave"),
                 T("RBRACKET", "]"), T("DOT", "."), Ident("items"),
                 T("LBRACKET", "["), Ident("rock"), T("RBRACKET", "]"), EOL>>,
               <<Kw("MESSAGE"), Ident("cave"), T("DOT", "."), Ident("items"),
                 T("DOT", "."), Ident("name"), EOL>>,
               <<Kw("MESSAGE"), Ident("rooms"), T("LBRACKET", "["), Ident("rock"),
                 T("DOT", "."), Ident("location"), T("RBRACKET", "]"), EOL>>,
               <<Kw("MESSAGE"), Ident("rooms"), T("LBRACKET", "["), Str("cave"),
                 T("RBRACKET", "]"), EOL>>,
               <<Kw("MESSAGE"), T("LBRACKET", "["), Ident("cave"),
                 T("RBRACKET", "]"), EOL>>}]

Strays ==
  [prefix |-> <<>>, suffix |-> <<>>,
   chunks |-> {<<Ident("cave"), EOL>>,
               <<Str("dark"), EOL>>,
               EndScript,
               <<EOL>>,
               RoomHeader("Cave", "cave"),
               <<Kw("ITEM"), Ident("rock"), EOL>>,
               <<Kw("VAR"), Ident("rock"), Kw("VAR"), Ident("lamp"), EOL>>,
               <<Kw("VAR"), Ident("lamp"), T("ASSIGNMENT", "="), Num("5")>>
                 \o ItemHeader("Rock", "rock"),
               ScriptHeader("greet") \o ItemHeader("Rock", "rock") \o EndScript}]

Families ==
  {Declarations, Variables, Descriptions, Locations, Takeables, Commands,
   ScriptBodies, Expressions, Strays}

RECURSIVE Flatten(_)
Flatten(chunks) ==
  IF chunks = <<>> THEN <<>> ELSE Head(chunks) \o Flatten(Tail(chunks))

\* the sources of a family: its prefix, up to MaxChunks of its chunks, its suffix
SourcesOf(f) ==
  {f.prefix \o Flatten(chunks) \o f.suffix :
     chunks \in UNION {[1..n -> f.chunks] : n \in 0..MaxChunks}}

----------------------------------------------------------------------------
(* The compile as a state machine: one step per iteration of the loops of
   SymbolParser.parse and Parser.parse *)

NoResult == [returned |-> FALSE, definition |-> GameDefinitionBuilder_new]

\* the method of Parser whose loop is running, with the locals its loop uses
Frame(method, identifier, command) ==
  [method |-> method, identifier |-> identifier, command |-> command]

NoCommand == [line |-> 0, col |-> 0, verb |-> ""]

TopFrame == Frame("parse", "", NoCommand)

Init ==
  /\ \E f \in Families : source \in SourcesOf(f)
  /\ tokens = tokenize(source)
  /\ lexer = Lexer_new(<<>>)
  /\ pc = "pass1"
  /\ symbolParser = SymbolParser_new(tokenize(source))
  /\ parser = Parser_new(tokenize(source), EmptyMap)
  /\ frame = TopFrame
  /\ error = NoError
  /\ result = NoResult
  /\ topLevel = {}

\* the symbol parser after an iteration, or the error the iteration threw
Symbols(s) ==
  /\ symbolParser' = s
  /\ error' = s.err
  /\ pc' = IF Failed(s) THEN "thrown1" ELSE "pass1"
  /\ UNCHANGED <<source, tokens, lexer, parser, frame, result, topLevel>>

\* the loop of SymbolParser.parse is at a token of this type
SymbolsDispatch(type) ==
  /\ pc = "pass1"
  /\ ~SymbolParser_finished(tokens, symbolParser)
  /\ CurrentToken(tokens, symbolParser).type = type

SymbolsVar ==
  /\ SymbolsDispatch("VAR")
  /\ Symbols(SymbolParser_parseVariableDefinition(tokens, symbolParser))

SymbolsItem ==
  /\ SymbolsDispatch("ITEM")
  /\ Symbols(SymbolParser_parseItemDefinition(tokens, symbolParser))

SymbolsRoom ==
  /\ SymbolsDispatch("ROOM")
  /\ Symbols(SymbolParser_parseRoomDefinition(tokens, symbolParser))

SymbolsScript ==
  /\ SymbolsDispatch("SCRIPT")
  /\ Symbols(SymbolParser_parseScriptDefinition(tokens, symbolParser))

SymbolsOther ==
  /\ pc = "pass1"
  /\ ~SymbolParser_finished(tokens, symbolParser)
  /\ CurrentToken(tokens, symbolParser).type \notin {"VAR", "ITEM", "ROOM", "SCRIPT"}
  /\ Symbols(SymbolParser_consume(tokens, symbolParser))

\* SymbolParser.parse returns its map and main constructs the Parser with it
SymbolsReturn ==
  /\ pc = "pass1"
  /\ SymbolParser_finished(tokens, symbolParser)
  /\ parser' = Parser_new(tokens, symbolParser.symbolsMap)
  /\ pc' = "pass2"
  /\ UNCHANGED <<source, tokens, lexer, symbolParser, frame, error, result, topLevel>>

\* the parser after a step, or the error the step threw
Parse(p) ==
  /\ parser' = p
  /\ error' = p.err
  /\ pc' = IF Failed(p) THEN "thrown2" ELSE "pass2"
  /\ UNCHANGED <<source, tokens, lexer, symbolParser, result>>

\* the loop of Parser.parse is at a token of this type
AtTopLevel(type) ==
  /\ pc = "pass2"
  /\ frame.method = "parse"
  /\ ~Parser_finished(tokens, parser)
  /\ CurrentToken(tokens, parser).type = type
  /\ topLevel' = topLevel \cup {parser.currentPosition}

\* the loop of a definition parser is at a token of this type
InLoop(method, type) ==
  /\ pc = "pass2"
  /\ frame.method = method
  /\ CurrentToken(tokens, parser).type = type
  /\ UNCHANGED <<frame, topLevel>>

\* the loop of a definition parser ends and the parser is back in Parser.parse
LoopEnd(method, properties) ==
  /\ pc = "pass2"
  /\ frame.method = method
  /\ CurrentToken(tokens, parser).type \notin properties
  /\ UNCHANGED <<source, tokens, lexer, pc, symbolParser, parser, error, result, topLevel>>

ParseVar ==
  /\ AtTopLevel("VAR")
  /\ Parse(Parser_parseVariableDefinition(tokens, parser))
  /\ UNCHANGED frame

ParseItem ==
  /\ AtTopLevel("ITEM")
  /\ LET header == Parser_itemHeader(tokens, parser)
     IN /\ Parse(header.p)
        /\ frame' = IF Failed(header.p) THEN frame
                    ELSE Frame("parseItemDefinition", header.val, NoCommand)

ParseItemDesc ==
  /\ InLoop("parseItemDefinition", "DESC")
  /\ Parse(Parser_itemProperty(tokens, parser, frame.identifier))

ParseItemLocation ==
  /\ InLoop("parseItemDefinition", "LOCATION")
  /\ Parse(Parser_itemProperty(tokens, parser, frame.identifier))

ParseItemTakeable ==
  /\ InLoop("parseItemDefinition", "TAKEABLE")
  /\ Parse(Parser_itemProperty(tokens, parser, frame.identifier))

ParseItemEnd ==
  /\ LoopEnd("parseItemDefinition", itemProperties)
  /\ frame' = TopFrame

ParseRoom ==
  /\ AtTopLevel("ROOM")
  /\ LET header == Parser_roomHeader(tokens, parser)
     IN /\ Parse(header.p)
        /\ frame' = IF Failed(header.p) THEN frame
                    ELSE Frame("parseRoomDefinition", header.val, NoCommand)

ParseRoomDesc ==
  /\ InLoop("parseRoomDefinition", "DESC")
  /\ Parse(Parser_roomProperty(tokens, parser, frame.identifier))

ParseRoomEnd ==
  /\ LoopEnd("parseRoomDefinition", roomProperties)
  /\ frame' = TopFrame

ParseCommand ==
  /\ AtTopLevel("COMMAND")
  /\ LET header == Parser_commandHeader(tokens, parser)
     IN /\ Parse(header.p)
        /\ frame' = IF Failed(header.p) THEN frame
                    ELSE Frame("parseCommandDefinition", "", header.val)

ParseCommandEffect ==
  /\ InLoop("parseCommandDefinition", "EFFECT")
  /\ Parse(Parser_commandProperty(tokens, parser, frame.command))

ParseCommandEnd ==
  /\ LoopEnd("parseCommandDefinition", commandProperties)
  /\ frame' = TopFrame

ParseScript ==
  /\ AtTopLevel("SCRIPT")
  /\ Parse(Parser_parseScriptDefinition(tokens, parser))
  /\ UNCHANGED frame

ParseEol ==
  /\ AtTopLevel("EOL")
  /\ Parse(Parser_step(tokens, parser))
  /\ UNCHANGED frame

ParseOther ==
  /\ pc = "pass2"
  /\ frame.method = "parse"
  /\ ~Parser_finished(tokens, parser)
  /\ CurrentToken(tokens, parser).type
       \notin {"VAR", "ITEM", "ROOM", "COMMAND", "SCRIPT", "EOL"}
  /\ topLevel' = topLevel \cup {parser.currentPosition}
  /\ Parse(Parser_step(tokens, parser))
  /\ UNCHANGED frame

\* Parser.parse returns the definition built
ParseReturn ==
  /\ pc = "pass2"
  /\ frame.method = "parse"
  /\ Parser_finished(tokens, parser)
  /\ result' = [returned |-> TRUE, definition |-> parser.gameDefinition]
  /\ pc' = "returned"
  /\ UNCHANGED <<source, tokens, lexer, symbolParser, parser, frame, error, topLevel>>

Next ==
  \/ SymbolsVar
  \/ SymbolsItem
  \/ SymbolsRoom
  \/ SymbolsScript
  \/ SymbolsOther
  \/ SymbolsReturn
  \/ ParseVar
  \/ ParseItem
  \/ ParseItemDesc
  \/ ParseItemLocation
  \/ ParseItemTakeable
  \/ ParseItemEnd
  \/ ParseRoom
  \/ ParseRoomDesc
  \/ ParseRoomEnd
  \/ ParseCommand
  \/ ParseCommandEffect
  \/ ParseCommandEnd
  \/ ParseScript
  \/ ParseEol
  \/ ParseOther
  \/ ParseReturn

Spec == Init /\ [][Next]_vars

----------------------------------------------------------------------------
(* The builder called directly: any order of item calls on one instance *)

ItemIds == {"rock", "lamp"}

ItemDescs == {"dull", "shiny"}

ItemLocations == {"cave", "den"}

ItemInteractions == {"Takeable"}

BuilderInit ==
  /\ source = <<>>
  /\ tokens = <<>>
  /\ lexer = Lexer_new(<<>>)
  /\ pc = "builder"
  /\ symbolParser = SymbolParser_new(<<>>)
  /\ parser = Parser_new(<<>>, EmptyMap)
  /\ frame = TopFrame
  /\ error = NoError
  /\ result = NoResult
  /\ topLevel = {}

\* a call of a builder method on the instance: what it threw, if anything,
\* and the definition the instance holds afterwards
Called(method, itemId, built) ==
  /\ pc = "builder"
  /\ parser' = [parser EXCEPT !.gameDefinition = built.gameDefinition]
  /\ error' = built.err
  /\ frame' = Frame(method, itemId, NoCommand)
  /\ UNCHANGED <<source, tokens, lexer, pc, symbolParser, result, topLevel>>

CallSetInitialItemDefinition ==
  \E id \in ItemIds :
    Called("setInitialItemDefinition", id,
           setInitialItemDefinition(parser.gameDefinition,
             [id |-> id, name |-> id, line |-> 1, col |-> 1]))

CallSetItemDesc ==
  \E id \in ItemIds, desc \in ItemDescs :
    Called("setItemDesc", id, setItemDesc(parser.gameDefinition, id, desc))

CallSetItemLocation ==
  \E id \in ItemIds, location \in ItemLocations :
    Called("setItemLocation", id, setItemLocation(parser.gameDefinition, id, location))

CallSetItemInteraction ==
  \E id \in ItemIds, interaction \in ItemInteractions :
    /\ Has(parser.gameDefinition.items, id) =>
         Len(parser.gameDefinition.items[id].interactions) < MaxInteractions
    /\ Called("setItemInteraction", id,
              setItemInteraction(parser.gameDefinition, id, interaction))

BuilderNext ==
  \/ CallSetInitialItemDefinition
  \/ CallSetItemDesc
  \/ CallSetItemLocation
  \/ CallSetItemInteraction

BuilderSpec == BuilderInit /\ [][BuilderNext]_vars

----------------------------------------------------------------------------
(* The Lexer run on a source text, one iteration of tokenize's loop a step *)

\* the characters the source texts are made of
Alphabet == {"\n", " ", "=", ".", "\"", "#", "I", "D", "a", "5", "!"}

Texts == UNION {[1..n -> Alphabet] : n \in 0..MaxSourceLen}

LexInit ==
  /\ source \in Texts
  /\ tokens = <<>>
  /\ lexer = Lexer_new(source)
  /\ pc = "lexing"
  /\ symbolParser = SymbolParser_new(<<>>)
  /\ parser = Parser_new(<<>>, EmptyMap)
  /\ frame = TopFrame
  /\ error = NoError
  /\ result = NoResult
  /\ topLevel = {}

\* the lexer after an iteration, or the error the iteration threw
Lexed(l) ==
  /\ lexer' = l
  /\ error' = l.err
  /\ pc' = IF Failed(l) THEN "lexerThrown" ELSE "lexing"
  /\ UNCHANGED <<source, tokens, symbolParser, parser, frame, result, topLevel>>

\* the loop of tokenize runs an iteration whose scan is at one of these
\* characters
Scans(chars) ==
  /\ pc = "lexing"
  /\ source # <<>>
  /\ ~Lexer_eof(source, lexer)
  /\ ~Failed(Lexer_skipWhitespace(source, lexer))
  /\ Lexer_skipWhitespace(source, lexer).char \in chars

LexEmpty ==
  /\ pc = "lexing"
  /\ source = <<>>
  /\ tokens' = <<>>
  /\ pc' = "lexed"
  /\ UNCHANGED <<source, lexer, symbolParser, parser, frame, error, result, topLevel>>

LexWhitespace ==
  /\ pc = "lexing"
  /\ source # <<>>
  /\ ~Lexer_eof(source, lexer)
  /\ Failed(Lexer_skipWhitespace(source, lexer))
  /\ Lexed(Lexer_iteration(source, lexer))

LexNewline ==
  /\ Scans({"\n"})
  /\ Lexed(Lexer_iteration(source, lexer))

LexAssignment ==
  /\ Scans({"="})
  /\ Lexed(Lexer_iteration(source, lexer))

LexPunctuation ==
  /\ Scans({".", "[", "]"})
  /\ Lexed(Lexer_iteration(source, lexer))

LexString ==
  /\ Scans(Quotes)
  /\ Lexed(Lexer_iteration(source, lexer))

LexComment ==
  /\ Scans({"#"})
  /\ Lexed(Lexer_iteration(source, lexer))

LexKeyword ==
  /\ Scans(UpperCase)
  /\ Lexed(Lexer_iteration(source, lexer))

LexIdentifier ==
  /\ Scans(LowerCase \cup {"_"})
  /\ Lexed(Lexer_iteration(source, lexer))

LexNumber ==
  /\ Scans(Digits)
  /\ Lexed(Lexer_iteration(source, lexer))

LexInvalid ==
  /\ Scans(Alphabet \ ({"\n", "=", ".", "[", "]", "#"} \cup Quotes \cup UpperCase
                         \cup LowerCase \cup {"_"} \cup Digits))
  /\ Lexed(Lexer_iteration(source, lexer))

LexReturn ==
  /\ pc = "lexing"
  /\ source # <<>>
  /\ Lexer_eof(source, lexer)
  /\ lexer' = Lexer_finish(lexer)
  /\ tokens' = Lexer_finish(lexer).tokens
  /\ pc' = "lexed"
  /\ UNCHANGED <<source, symbolParser, parser, frame, error, result, topLevel>>

LexNext ==
  \/ LexEmpty
  \/ LexWhitespace
  \/ LexNewline
  \/ LexAssignment
  \/ LexPunctuation
  \/ LexString
  \/ LexComment
  \/ LexKeyword
  \/ LexIdentifier
  \/ LexNumber
  \/ LexInvalid
  \/ LexReturn

LexSpec == LexInit /\ [][LexNext]_vars

----------------------------------------------------------------------------
(* Properties *)

\* the token k places after the current token of a parser
Ahead(s, k) == CurrentToken(tokens, [currentPosition |-> s.currentPosition + k])

\* the four declarations of pass 1: keyword, the tokens between the keyword
\* and the identifier, the kind registered and the duplicate error thrown
Declarators ==
  {[keyword |-> "VAR", header |-> <<>>, entity |-> "VARIABLE",
    defined |-> "VariableAlreadyDefinedError"],
   [keyword |-> "ITEM", header |-> <<"STRING", "ID", "ASSIGNMENT">>, entity |-> "ITEM",
    defined |-> "ItemAlreadyDefinedError"],
   [keyword |-> "ROOM", header |-> <<"STRING", "ID", "ASSIGNMENT">>, entity |-> "ROOM",
    defined |-> "RoomAlreadyDefinedError"],
   [keyword |-> "SCRIPT", header |-> <<>>, entity |-> "SCRIPT",
    defined |-> "ScriptAlreadyDefinedError"]}

\* pass 1 is at a declaration of this kind whose header reaches an identifier
Declares(d) ==
  /\ pc = "pass1"
  /\ ~SymbolParser_finished(tokens, symbolParser)
  /\ CurrentToken(tokens, symbolParser).type = d.keyword
  /\ \A k \in 1..Len(d.header) : Ahead(symbolParser, k).type = d.header[k]
  /\ Ahead(symbolParser, Len(d.header) + 1).type = "IDENT"

DeclaredToken(d) == Ahead(symbolParser, Len(d.header) + 1)

\* C1: pass 1 keeps one flat namespace. A declaration of any of the four kinds
\* whose identifier is already registered, by a declaration of any kind, throws
\* the already-defined error of its own kind with the registered entry's
\* position as the original position and the new identifier's position as the
\* current one, and leaves the table as it was; a declaration of a fresh name
\* adds one entry at the identifier's position; no step removes or changes an
\* entry.
C1_FlatNamespace ==
  [][/\ \A d \in Declarators :
          Declares(d) =>
            LET tok == DeclaredToken(d)
                symbolsMap == symbolParser.symbolsMap
            IN IF Has(symbolsMap, tok.value)
                 THEN /\ pc' = "thrown1"
                      /\ error' = AlreadyDefinedError(d.defined, tok.value,
                                    symbolsMap[tok.value].definitionLine,
                                    symbolsMap[tok.value].definitionColumn,
                                    tok.line, tok.col)
                      /\ symbolParser'.symbolsMap = symbolsMap
               ELSE symbolParser'.symbolsMap =
                      MapSet(symbolsMap, tok.value, createSymbol(d.entity, tok.line, tok.col))
     /\ \A name \in DOMAIN symbolParser.symbolsMap :
          /\ Has(symbolParser'.symbolsMap, name)
          /\ symbolParser'.symbolsMap[name] = symbolParser.symbolsMap[name]]_vars

\* an ITEM declaration was rejected for a name registered with another kind on
\* an earlier line
C1_Witness ==
  /\ pc = "thrown1"
  /\ error.kind = "ItemAlreadyDefinedError"
  /\ Has(symbolParser.symbolsMap, error.name)
  /\ symbolParser.symbolsMap[error.name].type # "ITEM"
  /\ error.originalLine = symbolParser.symbolsMap[error.name].definitionLine
  /\ error.originalLine < error.line

\* C3: after a successful compile playerStartLocation is a key of rooms.
C3_StartLocationIsRoom ==
  result.returned =>
    result.definition.playerStartLocation \in DOMAIN result.definition.rooms

\* pass 2 is at a VAR definition whose name is declared and is followed by "="
DefinesVariable ==
  /\ pc = "pass2"
  /\ frame.method = "parse"
  /\ CurrentToken(tokens, parser).type = "VAR"
  /\ Ahead(parser, 1).type = "IDENT"
  /\ Has(parser.symbolsMap, Ahead(parser, 1).value)
  /\ Ahead(parser, 2).type = "ASSIGNMENT"

\* C4: a VAR definition of the reserved start-location variable whose value is
\* an identifier with a symbol entry throws ReferenceError, at the variable's
\* position, unless the entry's kind is Room, and leaves playerStartLocation
\* alone; when the kind is Room the identifier becomes playerStartLocation. A
\* VAR of any other name leaves playerStartLocation unchanged.
C4_StartLocationKind ==
  [][DefinesVariable =>
       LET name == Ahead(parser, 1)
           value == Ahead(parser, 3)
           before == parser.gameDefinition.playerStartLocation
           after == parser'.gameDefinition.playerStartLocation
       IN /\ (/\ name.value = PLAYER_LOCATION_VAR
              /\ value.type = "IDENT"
              /\ Has(parser.symbolsMap, value.value)) =>
                IF parser.symbolsMap[value.value].type # "ROOM"
                  THEN /\ pc' = "thrown2"
                       /\ error' = ReferenceError(name.line, name.col)
                       /\ after = before
                ELSE /\ after = value.value
                     /\ error'.kind # "ReferenceError"
          /\ name.value # PLAYER_LOCATION_VAR => after = before]_vars

\* the start-location variable was assigned an identifier that is not a room
C4_Witness ==
  /\ pc = "thrown2"
  /\ error.kind = "ReferenceError"
  /\ CurrentToken(tokens, parser).type = "IDENT"
  /\ Has(parser.symbolsMap, CurrentToken(tokens, parser).value)
  /\ parser.symbolsMap[CurrentToken(tokens, parser).value].type # "ROOM"

\* pass 2 is at a LOCATION property of an item, followed by "="
LocatesItem ==
  /\ pc = "pass2"
  /\ frame.method = "parseItemDefinition"
  /\ CurrentToken(tokens, parser).type = "LOCATION"
  /\ Ahead(parser, 1).type = "ASSIGNMENT"

\* C5: a VAR whose value is an identifier without a symbol entry, and an item
\* LOCATION whose identifier has no symbol entry, throw
\* UndefinedIdentifierError naming that identifier; a compile that threw
\* returns no definition.
C5_UndefinedReference ==
  [][/\ (/\ DefinesVariable
         /\ Ahead(parser, 3).type = "IDENT"
         /\ ~Has(parser.symbolsMap, Ahead(parser, 3).value)) =>
           /\ pc' = "thrown2"
           /\ error' = UndefinedIdentifierError(Ahead(parser, 3).value,
                                                Ahead(parser, 1).line, Ahead(parser, 1).col)
     /\ (/\ LocatesItem
         /\ Ahead(parser, 2).type = "IDENT"
         /\ ~Has(parser.symbolsMap, Ahead(parser, 2).value)) =>
           /\ pc' = "thrown2"
           /\ error' = UndefinedIdentifierError(Ahead(parser, 2).value,
                                                Ahead(parser, 2).line, Ahead(parser, 2).col)
     /\ pc' \in {"thrown1", "thrown2"} => ~result'.returned
     /\ pc \in {"thrown1", "thrown2"} => pc' = pc]_vars

\* an item LOCATION named an identifier that no declaration registers
C5_Witness ==
  /\ pc = "thrown2"
  /\ frame.method = "parseItemDefinition"
  /\ error.kind = "UndefinedIdentifierError"
  /\ ~Has(parser.symbolsMap, error.name)
  /\ CurrentToken(tokens, parser).value = error.name
  /\ ~result.returned

\* C6: in the top-level loop of pass 2 a token that is not VAR, ITEM, ROOM,
\* COMMAND, SCRIPT or end-of-line throws UnexpectedTokenError and is not
\* skipped.
C6_StrayTokenRejected ==
  [][(/\ pc = "pass2"
      /\ frame.method = "parse"
      /\ ~Parser_finished(tokens, parser)
      /\ CurrentToken(tokens, parser).type
           \notin {"VAR", "ITEM", "ROOM", "COMMAND", "SCRIPT", "EOL"}) =>
       /\ pc' = "thrown2"
       /\ error'.kind = "UnexpectedTokenError"
       /\ parser'.currentPosition = parser.currentPosition]_vars

\* C7: after a successful compile the script of every command's effect is a
\* symbol of kind Script.
C7_EffectNamesScript ==
  result.returned =>
    \A i \in DOMAIN result.definition.commands :
      LET scriptId == result.definition.commands[i].effect.scriptId
      IN /\ Has(symbolParser.symbolsMap, scriptId)
         /\ symbolParser.symbolsMap[scriptId].type = "SCRIPT"

\* the identifiers that start an expression of a script action, a condition
\* or an expression, index expressions included
RECURSIVE ExpressionStarts(_)
ExpressionStarts(node) ==
  LET within(block) == UNION {ExpressionStarts(block[i]) : i \in DOMAIN block}
  IN CASE node.kind = "variableAccess" -> {node.variableName}
       [] node.kind = "propertyAccess" -> ExpressionStarts(node.object)
       [] node.kind = "indexedAccess" ->
            ExpressionStarts(node.object) \cup ExpressionStarts(node.index)
       [] node.kind = "comparison" ->
            ExpressionStarts(node.left) \cup ExpressionStarts(node.right)
       [] node.kind = "collectionCheck" -> ExpressionStarts(node.target)
       [] node.kind = "message" ->
            IF "valueExpression" \in DOMAIN node
              THEN ExpressionStarts(node.valueExpression)
            ELSE {}
       [] node.kind = "if" ->
            ExpressionStarts(node.condition) \cup within(node.thenBranch)
       [] node.kind = "for" ->
            ExpressionStarts(node.collection) \cup within(node.body)
       [] OTHER -> {}

ScriptIdentifiers(definition) ==
  UNION {UNION {ExpressionStarts(definition.scripts[id].body[i]) :
                  i \in DOMAIN definition.scripts[id].body} :
           id \in DOMAIN definition.scripts}

\* C8 as stated: after a successful compile every identifier that starts an
\* expression of a script body has a symbol entry.
C8_ScriptIdentifiersResolved ==
  result.returned =>
    ScriptIdentifiers(result.definition) \subseteq DOMAIN symbolParser.symbolsMap

\* C8: pass 2 does not look up the identifiers of script expressions. Parsing
\* a SCRIPT definition never throws UndefinedIdentifierError, and the error,
\* the definition and the position it ends with are those it would end with
\* under an empty symbol table.
C8_ScriptIdentifiersUnresolved ==
  [][(/\ pc = "pass2"
      /\ frame.method = "parse"
      /\ ~Parser_finished(tokens, parser)
      /\ CurrentToken(tokens, parser).type = "SCRIPT") =>
       LET unresolved ==
             Parser_parseScriptDefinition(tokens, [parser EXCEPT !.symbolsMap = EmptyMap])
       IN /\ error'.kind # "UndefinedIdentifierError"
          /\ error' = unresolved.err
          /\ parser'.gameDefinition = unresolved.gameDefinition
          /\ parser'.currentPosition = unresolved.currentPosition]_vars

\* a compile returned a script whose expression starts with an identifier
\* that no declaration registers
C8_Witness ==
  /\ result.returned
  /\ \E name \in ScriptIdentifiers(result.definition) :
       ~Has(symbolParser.symbolsMap, name)

\* pass 2 is at a DESC property of an item or a room
DescribesObject ==
  /\ pc = "pass2"
  /\ frame.method \in {"parseItemDefinition", "parseRoomDefinition"}
  /\ CurrentToken(tokens, parser).type = "DESC"

\* C9: DESC followed by a NUMBER, a BOOL or an IDENT throws the assertion
\* error; followed by a STRING it stores the string as the description.
C9_DescRequiresString ==
  [][DescribesObject =>
       LET value == Ahead(parser, 1)
           objects == IF frame.method = "parseItemDefinition"
                        THEN parser'.gameDefinition.items
                      ELSE parser'.gameDefinition.rooms
       IN /\ value.type \in {"NUMBER", "BOOL", "IDENT"} =>
               /\ pc' = "thrown2"
               /\ error' = AssertionError
          /\ value.type = "STRING" => objects[frame.identifier].desc = value.value]_vars

\* C10: LOCATION= followed by a NUMBER, a STRING or a BOOL throws and stores
\* nothing; followed by an IDENT it stores the identifier as the item's
\* initial location when the identifier has a symbol entry and throws when it
\* has none.
C10_LocationRequiresIdentifier ==
  [][LocatesItem =>
       LET value == Ahead(parser, 2)
           before == parser.gameDefinition.items[frame.identifier].initialLocation
           after == parser'.gameDefinition.items[frame.identifier].initialLocation
       IN /\ value.type \in {"NUMBER", "STRING", "BOOL"} =>
               /\ pc' = "thrown2"
               /\ after = before
          /\ value.type = "IDENT" =>
               IF Has(parser.symbolsMap, value.value)
                 THEN after = value.value
               ELSE /\ pc' = "thrown2"
                    /\ after = before]_vars

\* the positions at which the top-level loop of pass 2 stood, and the end of
\* the source
Stops == topLevel \cup {Len(source)}

DeclarationStarts ==
  {a \in topLevel : tokens[a + 1].type \in {"ROOM", "ITEM", "SCRIPT"}}

\* a declaration ends where the top-level loop stands next
DeclarationEnd(a) == CHOOSE b \in Stops : b > a /\ \A c \in Stops : c > a => b <= c

\* the source with the tokens from position a up to b moved to position d
Move(raw, a, b, d) ==
  LET declaration == SubSeq(raw, a + 1, b)
  IN IF d <= a
       THEN SubSeq(raw, 1, d) \o declaration \o SubSeq(raw, d + 1, a)
              \o SubSeq(raw, b + 1, Len(raw))
     ELSE SubSeq(raw, 1, a) \o SubSeq(raw, b + 1, d) \o declaration
            \o SubSeq(raw, d + 1, Len(raw))

\* a node of a script body without the positions of its tokens
RECURSIVE Unplaced(_)
Unplaced(node) ==
  [field \in DOMAIN node \ {"line", "col"} |->
     IF field \in {"object", "index", "left", "right", "target", "condition",
                   "collection", "valueExpression", "effect"}
       THEN Unplaced(node[field])
     ELSE IF field \in {"thenBranch", "body"}
       THEN [i \in DOMAIN node[field] |-> Unplaced(node[field][i])]
     ELSE node[field]]

\* the entries of a definition without the positions of their declarations
Content(definition) ==
  [variables |-> [name \in DOMAIN definition.variables |->
                    Unplaced(definition.variables[name])],
   items |-> [id \in DOMAIN definition.items |-> Unplaced(definition.items[id])],
   rooms |-> [id \in DOMAIN definition.rooms |-> Unplaced(definition.rooms[id])],
   scripts |-> [id \in DOMAIN definition.scripts |-> Unplaced(definition.scripts[id])],
   commands |-> [i \in DOMAIN definition.commands |-> Unplaced(definition.commands[i])],
   playerStartLocation |-> definition.playerStartLocation]

\* C2: a program that compiles still compiles, to the same content, with any
\* of its ROOM, ITEM or SCRIPT declarations moved to any other top-level
\* position.
C2_DeclarationOrderIndependent ==
  result.returned =>
    \A a \in DeclarationStarts : \A d \in Stops :
      (d <= a \/ d >= DeclarationEnd(a)) =>
        LET moved == main(Move(source, a, DeclarationEnd(a), d))
        IN /\ moved.ok
           /\ Content(moved.definition) = Content(result.definition)

\* pass 2 is at a TAKEABLE property of an item, followed by "="
TakesItem ==
  /\ pc = "pass2"
  /\ frame.method = "parseItemDefinition"
  /\ CurrentToken(tokens, parser).type = "TAKEABLE"
  /\ Ahead(parser, 1).type = "ASSIGNMENT"

\* C11: TAKEABLE= followed by a NUMBER, a STRING or an IDENT throws the
\* assertion error and leaves the item's interactions alone; TAKEABLE=true
\* appends Takeable to the item's interactions and TAKEABLE=false leaves them
\* unchanged without an assertion error.
C11_TakeableRequiresBoolean ==
  [][TakesItem =>
       LET value == Ahead(parser, 2)
           before == parser.gameDefinition.items[frame.identifier].interactions
           after == parser'.gameDefinition.items[frame.identifier].interactions
       IN /\ value.type \in {"NUMBER", "STRING", "IDENT"} =>
               /\ pc' = "thrown2"
               /\ error' = AssertionError
               /\ after = before
          /\ (value.type = "BOOL" /\ value.value = "true") =>
               after = Append(before, "Takeable")
          /\ (value.type = "BOOL" /\ value.value = "false") =>
               /\ after = before
               /\ error'.kind # "AssertionError"]_vars

\* an item already takeable was given TAKEABLE=true again
C11_Witness ==
  /\ pc = "pass2"
  /\ frame.method = "parseItemDefinition"
  /\ parser.currentPosition >= 4
  /\ Ahead(parser, -4).type = "TAKEABLE"
  /\ Ahead(parser, -2).value = "true"
  /\ Len(parser.gameDefinition.items[frame.identifier].interactions) = 2

\* the token at this position opens a FOR whose collection is a literal
ForOverLiteral(position) ==
  LET at(k) == CurrentToken(tokens, [currentPosition |-> position + k])
  IN /\ at(0).type = "FOR"
     /\ at(1).type = "IDENT"
     /\ at(2).type = "IN"
     /\ at(3).type \in {"STRING", "NUMBER", "BOOL"}

\* C12: a FOR whose collection is a literal fails, and the error carries the
\* position of the FOR token.
C12_ForLiteralAtForToken ==
  /\ result.returned => \A position \in 0..Len(tokens) : ~ForOverLiteral(position)
  /\ (/\ pc = "thrown2"
      /\ parser.currentPosition >= 3
      /\ ForOverLiteral(parser.currentPosition - 3)) =>
        /\ error.kind = "UnexpectedTokenError"
        /\ error.line = Ahead(parser, -3).line
        /\ error.col = Ahead(parser, -3).col

\* the condition parsed from this position of the token stream
ConditionAt(position) ==
  Parser_parseCondition(tokens,
    [Parser_new(tokens, EmptyMap) EXCEPT !.currentPosition = position])

\* the types of the tokens from this position on
TypesAt(position, count) ==
  [k \in 1..count |-> CurrentToken(tokens, [currentPosition |-> position + k - 1]).type]

\* C13: when pass 2 reaches a SCRIPT, in every condition of the tokens ahead
\* <expr> HAS ITEMS is accepted for an indexed or a property access and
\* rejected, with UnexpectedTokenError at the start of the condition, for a
\* bare variable; <expr> == <expr> is accepted whatever the two sides are.
C13_ConditionOperands ==
  (/\ pc = "pass2"
   /\ frame.method = "parse"
   /\ CurrentToken(tokens, parser).type = "SCRIPT") =>
  \A position \in parser.currentPosition..Len(tokens) :
    LET start == CurrentToken(tokens, [currentPosition |-> position])
        condition == ConditionAt(position)
    IN /\ TypesAt(position, 3) = <<"IDENT", "HAS", "ITEMS">> =>
            /\ condition.p.err = UnexpectedTokenError(start.line, start.col)
            /\ condition.val = NoNode
       /\ TypesAt(position, 5) = <<"IDENT", "DOT", "IDENT", "HAS", "ITEMS">> =>
            /\ ~Failed(condition.p)
            /\ condition.p.currentPosition = position + 5
            /\ condition.val.kind = "collectionCheck"
            /\ condition.val.target.kind = "propertyAccess"
       /\ TypesAt(position, 6) = <<"IDENT", "LBRACKET", "IDENT", "RBRACKET", "HAS", "ITEMS">> =>
            /\ ~Failed(condition.p)
            /\ condition.p.currentPosition = position + 6
            /\ condition.val.kind = "collectionCheck"
            /\ condition.val.target.kind = "indexedAccess"
       /\ TypesAt(position, 4) = <<"IDENT", "EQ", "IDENT", "THEN">> =>
            /\ ~Failed(condition.p)
            /\ condition.p.currentPosition = position + 3
            /\ condition.val.kind = "comparison"
            /\ condition.val.left.variableName = start.value
            /\ condition.val.right.variableName =
                  CurrentToken(tokens, [currentPosition |-> position + 2]).value

\* pass 2 has accepted HAS ITEMS on a property access and then stopped at
\* HAS ITEMS on a bare variable, with the error at that variable
C13_Witness ==
  /\ pc = "thrown2"
  /\ parser.currentPosition >= 4
  /\ TypesAt(parser.currentPosition - 4, 4) = <<"IF", "IDENT", "HAS", "ITEMS">>
  /\ error = UnexpectedTokenError(Ahead(parser, -3).line, Ahead(parser, -3).col)
  /\ \E position \in 0..parser.currentPosition :
        TypesAt(position, 6) = <<"IF", "IDENT", "DOT", "IDENT", "HAS", "ITEMS">>

\* C14: pass 1 fails only with a missing-name, an already-defined or the
\* unterminated-block error, and UnexpectedTokenError is thrown only by pass 2.
C14_ErrorsPartitionedByPass ==
  /\ pc = "thrown1" =>
        error.kind \in {"MissingVariableNameError", "MissingItemIdentifierError",
                        "MissingRoomIdentifierError", "MissingScriptIdentifierError",
                        "VariableAlreadyDefinedError", "ItemAlreadyDefinedError",
                        "RoomAlreadyDefinedError", "ScriptAlreadyDefinedError",
                        "UnterminatedBlockError"}
  /\ error.kind = "UnexpectedTokenError" => pc = "thrown2"

\* C15: setItemDesc, setItemLocation and setItemInteraction on an item that
\* was not registered fail with an assertion and leave the definition as it
\* was; on a registered item each changes that item's own field and nothing
\* else.
C15_ItemMutatorsNeedRegistration ==
  [][pc = "builder" =>
       LET itemId == frame'.identifier
           before == parser.gameDefinition
           after == parser'.gameDefinition
           changed ==
             CASE frame'.method = "setItemDesc" ->
                    {[before EXCEPT !.items[itemId].desc = desc] : desc \in ItemDescs}
               [] frame'.method = "setItemLocation" ->
                    {[before EXCEPT !.items[itemId].initialLocation = location] :
                       location \in ItemLocations}
               [] frame'.method = "setItemInteraction" ->
                    {[before EXCEPT !.items[itemId].interactions =
                        Append(before.items[itemId].interactions, interaction)] :
                       interaction \in ItemInteractions}
       IN frame'.method \in {"setItemDesc", "setItemLocation", "setItemInteraction"} =>
            IF itemId \notin DOMAIN before.items
              THEN error' = NotRegistered("setInitialItemDefinition") /\ after = before
            ELSE error' = NoError /\ after \in changed]_vars

\* a call on an unregistered item has failed on an instance that holds
\* another item, registered and filled in
C15_Witness ==
  /\ pc = "builder"
  /\ frame.method \in {"setItemDesc", "setItemLocation", "setItemInteraction"}
  /\ frame.identifier \notin DOMAIN parser.gameDefinition.items
  /\ error = NotRegistered("setInitialItemDefinition")
  /\ \E other \in DOMAIN parser.gameDefinition.items :
        /\ parser.gameDefinition.items[other].desc # ""
        /\ parser.gameDefinition.items[other].initialLocation # ""
        /\ parser.gameDefinition.items[other].interactions # <<>>

\* the EFFECT loop of a COMMAND is at an EFFECT clause
ExecutesEffect ==
  /\ pc = "pass2"
  /\ frame.method = "parseCommandDefinition"
  /\ CurrentToken(tokens, parser).type = "EFFECT"

\* C17: an EFFECT EXECUTE clause under a COMMAND appends one entry, the
\* COMMAND's verb with a callScript effect naming the clause's identifier, to
\* the end of the commands, wherever the identifier is declared; nothing else
\* changes the commands; another keyword after EFFECT is UnexpectedTokenError.
C17_OneCommandPerEffect ==
  [][LET keyword == Ahead(parser, 1)
         script == Ahead(parser, 2)
         before == parser.gameDefinition.commands
         after == parser'.gameDefinition.commands
     IN /\ (/\ ExecutesEffect
             /\ keyword.type = "EXECUTE"
             /\ Has(symbolParser.symbolsMap, script.value)) =>
               /\ Len(after) = Len(before) + 1
               /\ SubSeq(after, 1, Len(before)) = before
               /\ after[Len(after)].verb = frame.command.verb
               /\ after[Len(after)].effect.kind = "callScript"
               /\ after[Len(after)].effect.scriptId = script.value
        /\ (ExecutesEffect /\ keyword.type # "EXECUTE") =>
               /\ pc' = "thrown2"
               /\ error'.kind = "UnexpectedTokenError"
               /\ after = before
        /\ (pc \in {"pass1", "pass2"} /\ ~ExecutesEffect) => after = before
        /\ (/\ pc = "pass2"
            /\ frame.method = "parse"
            /\ frame'.method = "parseCommandDefinition") =>
               frame'.command.verb = keyword.value]_vars

\* a COMMAND with one EFFECT clause has its one entry, and the script the
\* entry calls is declared after the COMMAND
C17_Witness ==
  /\ pc = "returned"
  /\ Len(result.definition.commands) = 1
  /\ LET command == result.definition.commands[1]
         script == symbolParser.symbolsMap[command.effect.scriptId]
     IN /\ script.type = "SCRIPT"
        /\ script.definitionLine > command.line

\* C18: whatever the source text, tokenize returns a list that ends with an
\* end-of-line and an end-of-file token, has an end-of-line token for every
\* newline of the text, and has the lexeme that ends at the last character.
C18_EndOfStream ==
  pc = "lexed" =>
    LET n == Len(tokens)
        last == Len(source)
        newlines == Cardinality({i \in 1..last : source[i] = "\n"})
        endOfLines == Cardinality({i \in 1..n : tokens[i].type = "EOL"})
    IN /\ n >= 2
       /\ tokens[n - 1].type = "EOL"
       /\ tokens[n].type = "EOF"
       /\ endOfLines \in {newlines, newlines + 1}
       /\ (/\ last >= 1
           /\ source[last] \in {"=", ".", "a", "5"}
           /\ last = 1 \/ source[last - 1] \in {" ", "\n", "=", "."}) =>
             /\ n >= 3
             /\ tokens[n - 2].value = source[last]

RECURSIVE Text(_)
\* the string a sequence of characters spells
Text(chars) == IF chars = <<>> THEN "" ELSE Head(chars) \o Text(Tail(chars))

\* the texts made of lowercase letters and underscores only
LowerCaseTexts ==
  {Text(chars) :
     chars \in UNION {[1..n -> (LowerCase \cup {"_"}) \cap Alphabet] : n \in 1..MaxSourceLen}}

\* C19: the text of every IDENT or BOOL token the Lexer adds consists of
\* lowercase letters and underscores only.
C19_IdentifiersLowerCase ==
  \A i \in DOMAIN lexer.tokens :
    lexer.tokens[i].type \in {"IDENT", "BOOL"} => lexer.tokens[i].value \in LowerCaseTexts

\* C20: the UnterminatedBlockError of pass 1 carries the line and column of a
\* SCRIPT keyword token that no ENDSCRIPT follows.
C20_UnterminatedAtScriptKeyword ==
  (pc = "thrown1" /\ error.kind = "UnterminatedBlockError") =>
    \E i \in DOMAIN tokens :
      /\ tokens[i].type = "SCRIPT"
      /\ \A j \in i..Len(tokens) : tokens[j].type # "ENDSCRIPT"
      /\ error.line = tokens[i].line
      /\ error.col = tokens[i].col

\* the first position after the current one of pass 1 that holds a token of
\* this type
NextOf(type) ==
  CHOOSE i \in (symbolParser.currentPosition + 1)..Len(tokens) :
    /\ CurrentToken(tokens, [currentPosition |-> i]).type = type
    /\ \A j \in (symbolParser.currentPosition + 1)..(i - 1) :
         CurrentToken(tokens, [currentPosition |-> j]).type # type

\* C21: an iteration of pass 1 adds at most the name its VAR, ITEM, ROOM or
\* SCRIPT keyword introduces; after a VAR it continues behind the next
\* end-of-line and after a SCRIPT at the first ENDSCRIPT, so the tokens between
\* are never dispatched on; at any other token it moves one token on and
\* leaves the table as it was.
C21_OnlyDispatchedNamesRegistered ==
  [][(pc = "pass1" /\ ~SymbolParser_finished(tokens, symbolParser)) =>
       LET type == CurrentToken(tokens, symbolParser).type
           before == symbolParser.symbolsMap
           after == symbolParser'.symbolsMap
           added == DOMAIN after \ DOMAIN before
       IN /\ \A d \in Declarators :
               type = d.keyword =>
                 /\ added \subseteq {Ahead(symbolParser, Len(d.header) + 1).value}
                 /\ pc' = "pass1" => added # {}
          /\ type \notin {d.keyword : d \in Declarators} =>
               /\ after = before
               /\ pc' = "pass1" =>
                    symbolParser'.currentPosition = symbolParser.currentPosition + 1
          /\ (type = "VAR" /\ pc' = "pass1") =>
               symbolParser'.currentPosition = NextOf("EOL") + 1
          /\ (type = "SCRIPT" /\ pc' = "pass1") =>
               symbolParser'.currentPosition = NextOf("ENDSCRIPT")]_vars

\* pass 1 stands at the ENDSCRIPT of a script whose body holds a VAR line, and
\* the name after that VAR has no symbol
C21_Witness ==
  /\ pc = "pass1"
  /\ CurrentToken(tokens, symbolParser).type = "ENDSCRIPT"
  /\ \E k \in 2..symbolParser.currentPosition :
       /\ Ahead(symbolParser, -k).type = "VAR"
       /\ Ahead(symbolParser, 1 - k).type = "IDENT"
       /\ ~Has(symbolParser.symbolsMap, Ahead(symbolParser, 1 - k).value)

\* C22: in a ROOM body a property token other than DESC makes the compile
\* fail with the 'not yet implemented' fault.
C22_RoomPropertyNotImplemented ==
  [][(/\ pc = "pass2"
      /\ frame.method = "parseRoomDefinition"
      /\ CurrentToken(tokens, parser).type \in {"LOCATION", "TAKEABLE"}) =>
       /\ pc' = "thrown2"
       /\ error' = Err("Error", "not yet implemented", 0, 0, 0, 0)]_vars

\* C23: no run of the two passes ends in the 'must be called first' assertion
\* of the builder: while the property loop of an ITEM or a ROOM runs, the id
\* its calls pass to the builder is registered.
C23_RegisteredBeforeMutated ==
  /\ error \notin {NotRegistered(method) :
                     method \in {"setInitialItemDefinition", "setInitialRoomDefinition",
                                 "setInitialScriptDefinition"}}
  /\ (pc = "pass2" /\ frame.method = "parseItemDefinition") =>
       Has(parser.gameDefinition.items, frame.identifier)
  /\ (pc = "pass2" /\ frame.method = "parseRoomDefinition") =>
       Has(parser.gameDefinition.rooms, frame.identifier)

\* the property loop of an ITEM has set the location of its item to a
\* registered room
C23_Witness ==
  /\ pc = "pass2"
  /\ frame.method = "parseItemDefinition"
  /\ Has(parser.gameDefinition.rooms,
         parser.gameDefinition.items[frame.identifier].initialLocation)

\* C24: pass 2 only reads its inputs.  From the construction of the Parser to
\* the return or the throw of Parser.parse, the symbol table the Parser holds
\* is the table pass 1 returned, entry for entry, and the token list is the
\* one the source was tokenized to; no step of pass 2 changes either.
C24_InputsReadOnly ==
  [][pc = "pass2" =>
       /\ parser.symbolsMap = symbolParser.symbolsMap
       /\ parser'.symbolsMap = symbolParser.symbolsMap
       /\ symbolParser' = symbolParser
       /\ tokens = tokenize(source)
       /\ tokens' = tokens]_vars

\* Parser.parse has returned a definition with a variable that pass 1
\* registered
C24_Witness ==
  /\ pc = "returned"
  /\ \E name \in DOMAIN result.definition.variables :
       /\ Has(parser.symbolsMap, name)
       /\ parser.symbolsMap[name].type = "VARIABLE"

\* the expression parseExpression reads from this position on
ExpressionAt(position) ==
  Parser_parseExpression(tokens, [parser EXCEPT !.currentPosition = position])

\* the token values an expression is written as
RECURSIVE Unparse(_)
Unparse(node) ==
  CASE node.kind = "variableAccess" -> <<node.variableName>>
    [] node.kind = "propertyAccess" -> Unparse(node.object) \o <<".", node.propertyName>>
    [] node.kind = "indexedAccess" ->
         Unparse(node.object) \o <<"[">> \o Unparse(node.index) \o <<"]">>

\* the access kinds of an expression from the outermost to the innermost
RECURSIVE Wrappers(_)
Wrappers(node) ==
  IF node.kind = "variableAccess" THEN <<>>
  ELSE <<node.kind>> \o Wrappers(node.object)

\* the values of the tokens from one position up to another
ValuesFrom(from, to) ==
  [k \in 1..(to - from) |-> CurrentToken(tokens, [currentPosition |-> from + k - 1]).value]

\* C25: when pass 2 reaches a SCRIPT, parseExpression at any token ahead that
\* is not an identifier throws UnexpectedTokenError at that token; at an
\* identifier, when it returns, it has read every suffix (the next token is
\* neither "." nor "["), the expression is written as exactly the tokens read,
\* with a variable access innermost, and the identifier followed by
\* [x].y[z] is an indexed access of a property access of an indexed access.
C25_AccessChainsLeftAssociative ==
  (/\ pc = "pass2"
   /\ frame.method = "parse"
   /\ CurrentToken(tokens, parser).type = "SCRIPT") =>
  \A position \in parser.currentPosition..(Len(tokens) - 1) :
    LET start == CurrentToken(tokens, [currentPosition |-> position])
        expression == ExpressionAt(position)
    IN /\ start.type # "IDENT" =>
            /\ expression.p.err = UnexpectedTokenError(start.line, start.col)
            /\ expression.p.currentPosition = position
       /\ (start.type = "IDENT" /\ ~Failed(expression.p)) =>
            /\ CurrentToken(tokens, expression.p).type \notin {"DOT", "LBRACKET"}
            /\ Unparse(expression.val) = ValuesFrom(position, expression.p.currentPosition)
       /\ TypesAt(position, 11) = <<"IDENT", "LBRACKET", "IDENT", "RBRACKET", "DOT", "IDENT",
                                    "LBRACKET", "IDENT", "RBRACKET", "EOL", "ENDSCRIPT">> =>
            /\ ~Failed(expression.p)
            /\ expression.p.currentPosition = position + 9
            /\ Wrappers(expression.val) = <<"indexedAccess", "propertyAccess", "indexedAccess">>
            /\ expression.val.index.variableName = Ahead(expression.p, -2).value
            /\ expression.val.object.propertyName = Ahead(expression.p, -4).value
            /\ expression.val.object.object.index.variableName = Ahead(expression.p, -7).value
            /\ expression.val.object.object.object.variableName = start.value

\* a compiled script prints an indexed access of a property access of an
\* indexed access of a variable
C25_Witness ==
  /\ pc = "returned"
  /\ \E id \in DOMAIN result.definition.scripts :
       \E k \in 1..Len(result.definition.scripts[id].body) :
         LET action == result.definition.scripts[id].body[k]
         IN /\ action.kind = "message"
            /\ "valueExpression" \in DOMAIN action
            /\ Wrappers(action.valueExpression) =
                 <<"indexedAccess", "propertyAccess", "indexedAccess">>

\* the Message actions of a block, those of the blocks nested in it included
RECURSIVE Messages(_)
Messages(block) ==
  UNION {IF block[k].kind = "message" THEN {block[k]}
         ELSE IF block[k].kind = "if" THEN Messages(block[k].thenBranch)
         ELSE IF block[k].kind = "for" THEN Messages(block[k].body)
         ELSE {} : k \in DOMAIN block}

\* the action parseMessageAction reads from this position on
MessageAt(position) ==
  Parser_parseMessageAction(tokens, [parser EXCEPT !.currentPosition = position])

\* C26: every Message action of a compiled script has exactly one of
\* valueExpression and messageTemplate.  When pass 2 reaches a SCRIPT, at every
\* MESSAGE ahead parseMessageAction, when it returns, gives the expression and
\* no template for an identifier and the text of the literal and no
\* expression for a string, and throws UnexpectedTokenError at any other token
\* that follows the MESSAGE.
C26_OneMessagePayload ==
  /\ pc = "returned" =>
       \A id \in DOMAIN result.definition.scripts :
         \A action \in Messages(result.definition.scripts[id].body) :
           ("valueExpression" \in DOMAIN action) # ("messageTemplate" \in DOMAIN action)
  /\ (/\ pc = "pass2"
      /\ frame.method = "parse"
      /\ CurrentToken(tokens, parser).type = "SCRIPT") =>
     \A position \in parser.currentPosition..(Len(tokens) - 2) :
       LET payload == CurrentToken(tokens, [currentPosition |-> position + 1])
           message == MessageAt(position)
       IN CurrentToken(tokens, [currentPosition |-> position]).type = "MESSAGE" =>
            /\ (payload.type = "IDENT" /\ ~Failed(message.p)) =>
                 /\ DOMAIN message.val = {"kind", "valueExpression", "line", "col"}
                 /\ message.val.valueExpression = ExpressionAt(position + 1).val
            /\ (payload.type = "STRING" /\ ~Failed(message.p)) =>
                 /\ DOMAIN message.val = {"kind", "messageTemplate", "line", "col"}
                 /\ message.val.messageTemplate = payload.value
            /\ payload.type \notin {"IDENT", "STRING"} =>
                 /\ message.p.err = UnexpectedTokenError(payload.line, payload.col)
                 /\ message.val = NoNode

\* a compiled script has a Message with an expression and a Message with a
\* template
C26_Witness ==
  /\ pc = "returned"
  /\ \E id \in DOMAIN result.definition.scripts :
       /\ \E action \in Messages(result.definition.scripts[id].body) :
            "valueExpression" \in DOMAIN action
       /\ \E action \in Messages(result.definition.scripts[id].body) :
            "messageTemplate" \in DOMAIN action

\* C27: in a compiled definition no item's interactions holds the same flag
\* twice.
C27_InteractionsDistinct ==
  pc = "returned" =>
    \A id \in DOMAIN result.definition.items :
      LET interactions == result.definition.items[id].interactions
      IN \A i, j \in DOMAIN interactions :
           interactions[i] = interactions[j] => i = j

\* the action parseScriptAction reads from this position on
ScriptActionAt(position) ==
  Parser_parseScriptAction(tokens, [parser EXCEPT !.currentPosition = position])

\* C28: for a token list that ends with end-of-line and end-of-file, every
\* iteration of the loop of SymbolParser.parse and of the loops of Parser.parse
\* and its definition parsers throws or moves the cursor forward, a property
\* loop that ends hands the same cursor back to Parser.parse, the cursor stays
\* at or before the end-of-file token, and no step fails an assertion of
\* consume: the cursor strictly grows up to a bound, so both passes finish.
\* Every action of a script body as well throws or moves the cursor forward.
C28_PassesAdvanceInBounds ==
  [][(/\ Len(tokens) >= 2
      /\ tokens[Len(tokens) - 1].type = "EOL"
      /\ tokens[Len(tokens)].type = "EOF") =>
       /\ error' # OutOfBounds
       /\ pc = "pass1" =>
            /\ pc' \in {"pass1", "thrown1", "pass2"}
            /\ symbolParser'.currentPosition < Len(tokens)
            /\ pc' = "pass1" => symbolParser'.currentPosition > symbolParser.currentPosition
            /\ pc' = "pass2" => CurrentToken(tokens, symbolParser).type = "EOF"
       /\ pc = "pass2" =>
            /\ pc' \in {"pass2", "thrown2", "returned"}
            /\ parser'.currentPosition < Len(tokens)
            /\ (pc' = "pass2" /\ (frame.method = "parse" \/ frame' = frame)) =>
                 parser'.currentPosition > parser.currentPosition
            /\ (pc' = "pass2" /\ frame.method # "parse" /\ frame' # frame) =>
                 /\ frame' = TopFrame
                 /\ parser' = parser
            /\ pc' = "returned" => CurrentToken(tokens, parser).type = "EOF"
            /\ (frame.method = "parse" /\ CurrentToken(tokens, parser).type = "SCRIPT") =>
                 \A position \in parser.currentPosition..(Len(tokens) - 1) :
                   \/ Failed(ScriptActionAt(position).p)
                   \/ ScriptActionAt(position).p.currentPosition > position]_vars

\* Parser.parse has returned at the end-of-file token, the last of at least
\* twelve, after a script was compiled
C28_Witness ==
  /\ pc = "returned"
  /\ Len(tokens) >= 12
  /\ parser.currentPosition = Len(tokens) - 1
  /\ \E id \in DOMAIN result.definition.scripts : result.definition.scripts[id].body # <<>>

\* the names pass 1 registered with this kind
Registered(kind) ==
  {name \in DOMAIN symbolParser.symbolsMap : symbolParser.symbolsMap[name].type = kind}

\* C29: in a compiled definition the keys of items are the names pass 1
\* registered as items and the keys of rooms the names it registered as
\* rooms.
C29_ItemsAndRoomsAsRegistered ==
  pc = "returned" =>
    /\ DOMAIN result.definition.items = Registered("ITEM")
    /\ DOMAIN result.definition.rooms = Registered("ROOM")

\* a program with an item, a room and a name of another kind has compiled
C29_Witness ==
  /\ pc = "returned"
  /\ DOMAIN result.definition.items # {}
  /\ DOMAIN result.definition.rooms # {}
  /\ DOMAIN symbolParser.symbolsMap \ (Registered("ITEM") \cup Registered("ROOM")) # {}

\* C30: in a compiled definition every variable is stored under its own name
\* and every script under its own id.
C30_EntriesUnderOwnName ==
  pc = "returned" =>
    /\ \A k \in DOMAIN result.definition.variables :
         result.definition.variables[k].name = k
    /\ \A k \in DOMAIN result.definition.scripts :
         result.definition.scripts[k].id = k

====
